---- MODULE Spec2Model ----
(***************************************************************************)
(* Hybrid log-block flash translation layer of FlashSim (ssd_ftl.cpp)      *)
(* together with the part of the simulated device the FTL drives           *)
(* (ssd_ssd.cpp, ssd_page.cpp).  One host event (Ssd::event_arrive) is one *)
(* atomic step: the FTL is single threaded and translate, including every  *)
(* garbage-collection call it makes, runs to completion.                   *)
(***************************************************************************)
EXTENDS Integers, Sequences, FiniteSets, TLC

(* ---------------------------------------------------------------------- *)
(* Geometry (ssd.h externs).  OVERPROVISIONING is a float in the source;   *)
(* the geometry is chosen so that RAW_SIZE * OVERPROVISIONING / 100 is an  *)
(* integer and the float arithmetic of OP_SIZE is exact.                   *)
(* ---------------------------------------------------------------------- *)
VARIABLE geometry   \* the configuration the simulator was started with

SSD_SIZE == 1
PACKAGE_SIZE == 1
DIE_SIZE == 1
PLANE_SIZE == geometry.PLANE_SIZE
BLOCK_SIZE == 2
BLOCK_ERASES == 2
OVERPROVISIONING == geometry.OVERPROVISIONING
SizeofUInt == 4

(* the configurations examined: three logical blocks with a pool of one    *)
(* block, and three logical blocks with a pool of two                      *)
Configurations == {[PLANE_SIZE |-> 4, OVERPROVISIONING |-> 25],
                   [PLANE_SIZE |-> 5, OVERPROVISIONING |-> 40]}

RAW_SIZE == SSD_SIZE * PACKAGE_SIZE * DIE_SIZE * PLANE_SIZE * BLOCK_SIZE
NUM_OF_PHY_B == RAW_SIZE \div BLOCK_SIZE
OP_SIZE == (RAW_SIZE * OVERPROVISIONING) \div 100
NUM_OF_OP_B == OP_SIZE \div BLOCK_SIZE
USABLE_SIZE == RAW_SIZE - OP_SIZE
NUM_OF_LGC_B == USABLE_SIZE \div BLOCK_SIZE
emp_len == (USABLE_SIZE + SizeofUInt - 1) \div SizeofUInt

(* enum status, enum event_type, enum page_state *)
SUCCESS == "SUCCESS"
FAILURE == "FAILURE"
READ == "READ"
WRITE == "WRITE"
ERASE == "ERASE"
MERGE == "MERGE"
EMPTY == "EMPTY"
VALID == "VALID"

(* std::string::npos *)
npos == -1

(* The address an Event carries before anyone calls set_address. *)
NoAddress == [package |-> 0, die |-> 0, plane |-> 0, block |-> 0, page |-> 0, valid |-> "NONE"]

(* Payload bookkeeping of the test harness: a physical page holds nothing, *)
(* or a copy of logical page lba that is (or is no longer) the value of    *)
(* the latest host write to lba.                                           *)
NoData == [lba |-> -1, latest |-> FALSE]

(* ---------------------------------------------------------------------- *)
(* std::string, as a sequence of one-character strings                     *)
(* ---------------------------------------------------------------------- *)
Digit(d) == CASE d = 0 -> "0" [] d = 1 -> "1" [] d = 2 -> "2" [] d = 3 -> "3"
              [] d = 4 -> "4" [] d = 5 -> "5" [] d = 6 -> "6" [] d = 7 -> "7"
              [] d = 8 -> "8" [] d = 9 -> "9"

RECURSIVE to_string(_)
to_string(n) == IF n < 10 THEN <<Digit(n)>>
                ELSE to_string(n \div 10) \o <<Digit(n % 10)>>

(* pat occurs in str at 0-based position i *)
occurs_at(str, pat, i) ==
  /\ i >= 0
  /\ i + Len(pat) <= Len(str)
  /\ \A j \in 1..Len(pat) : str[i + j] = pat[j]

(* std::string::find(pat, pos) *)
str_find(str, pat, pos) ==
  LET hits == {i \in pos..(Len(str) - Len(pat)) : occurs_at(str, pat, i)}
  IN IF hits = {} THEN npos ELSE CHOOSE i \in hits : \A k \in hits : i <= k

(* std::string::rfind(pat) *)
str_rfind(str, pat) ==
  LET hits == {i \in 0..(Len(str) - Len(pat)) : occurs_at(str, pat, i)}
  IN IF hits = {} THEN npos ELSE CHOOSE i \in hits : \A k \in hits : i >= k

(* ---------------------------------------------------------------------- *)
(* Logical-page-written bitmap                                             *)
(* ---------------------------------------------------------------------- *)
RECURSIVE pow2(_)
pow2(k) == IF k = 0 THEN 1 ELSE 2 * pow2(k - 1)

check_page_empty(emp, lba) ==
  LET flag == emp[lba \div SizeofUInt]
  IN ((flag \div pow2(lba % SizeofUInt)) % 2) = 0

(* set_page_written picking the bit by the page offset in the block *)
set_page_written_by_offset(emp, lba) ==
  LET w == lba \div SizeofUInt
      flag == emp[w]
      bit == pow2(lba % BLOCK_SIZE)
  IN [emp EXCEPT ![w] = IF (flag \div bit) % 2 = 1 THEN flag ELSE flag + bit]

(* set_page_written storing the bit's mask instead of or-ing it in *)
set_page_written_assign(emp, lba) ==
  [emp EXCEPT ![lba \div SizeofUInt] = pow2(lba % SizeofUInt)]

(* set_page_written keeping every bit in the first word *)
set_page_written_one_word(emp, lba) ==
  LET flag == emp[0]
      bit == pow2(lba % SizeofUInt)
  IN [emp EXCEPT ![0] = IF (flag \div bit) % 2 = 1 THEN flag ELSE flag + bit]

set_page_written(emp, lba) ==
  LET w == lba \div SizeofUInt
      flag == emp[w]
      bit == pow2(lba % SizeofUInt)
  IN [emp EXCEPT ![w] = IF (flag \div bit) % 2 = 1 THEN flag ELSE flag + bit]

(* ---------------------------------------------------------------------- *)
(* Offset tables                                                           *)
(* ---------------------------------------------------------------------- *)
check_physical_address(s, logical_address) ==
  LET page == logical_address % BLOCK_SIZE
      nth_logical_block == logical_address \div BLOCK_SIZE
      offset == s.logical_to_physical[nth_logical_block]
      nth_physical_block == nth_logical_block + offset
  IN page + nth_physical_block * BLOCK_SIZE

set_physical_address(s, logical_address, physical_address) ==
  LET nth_logical_block == logical_address \div BLOCK_SIZE
      nth_physical_block == physical_address \div BLOCK_SIZE
  IN [s EXCEPT !.logical_to_physical[nth_logical_block] =
                  nth_physical_block - nth_logical_block]

(* returns [ok, log_address] *)
check_log_block(s, data_address) ==
  LET page == data_address % BLOCK_SIZE
      nth_data_block == data_address \div BLOCK_SIZE
      offset == s.data_to_log[nth_data_block]
  IN IF offset = 0 THEN [ok |-> FALSE, log_address |-> 0]
     ELSE [ok |-> TRUE, log_address |-> page + (nth_data_block + offset) * BLOCK_SIZE]

set_log_block(s, data_address, log_address) ==
  LET nth_data_block == data_address \div BLOCK_SIZE
      nth_log_block == log_address \div BLOCK_SIZE
  IN [s EXCEPT !.data_to_log[nth_data_block] = nth_log_block - nth_data_block]

(* std::unordered_map operations on log_to_pages *)
map_erase(m, k) == [x \in (DOMAIN m) \ {k} |-> m[x]]
map_assign(m, k, v) == [x \in (DOMAIN m) \cup {k} |-> IF x = k THEN v ELSE m[x]]
map_insert(m, k, v) == IF k \in DOMAIN m THEN m ELSE map_assign(m, k, v)

cancel_log_block(s, data_address) ==
  LET c == check_log_block(s, data_address)
      s1 == IF c.ok /\ c.log_address \in DOMAIN s.log_to_pages
            THEN [s EXCEPT !.log_to_pages = map_erase(s.log_to_pages, c.log_address)]
            ELSE s
  IN set_log_block(s1, data_address, data_address)

(* log_pages->second for log_pages = log_to_pages.find(log_address): the   *)
(* manifest string, or, when find returned end(), whatever the dereference *)
(* of the end iterator yields (garbage).                                    *)
deref_log_pages(s, log_address, garbage) ==
  IF log_address \in DOMAIN s.log_to_pages THEN s.log_to_pages[log_address]
  ELSE garbage

(* records that log_pages->second was evaluated (reached) with log_pages   *)
(* equal to log_to_pages.end()                                             *)
note_deref(s, log_address, reached) ==
  [s EXCEPT !.ub_deref = @ \/ (reached /\ log_address \notin DOMAIN s.log_to_pages)]

(* some page of the logical block is written: the copy loops reach their   *)
(* fetch_log_page call                                                     *)
any_page_written(s, logical_block) ==
  \E i \in 0..(BLOCK_SIZE - 1) : ~check_page_empty(s.logical_to_emptiness, logical_block + i)

(* ---------------------------------------------------------------------- *)
(* Manifest string operations                                              *)
(* ---------------------------------------------------------------------- *)
RECURSIVE count_commas_until(_, _, _, _)
count_commas_until(offsets, loc, index, count) ==
  IF index = loc THEN count
  ELSE count_commas_until(offsets, loc, str_find(offsets, <<",">>, index + 1), count + 1)

(* fetch_log_page searching with find where the code uses rfind: the first *)
(* copy of the page instead of the most recent one                         *)
fetch_log_page_first(offsets, data_page) ==
  IF offsets = <<>> THEN [found |-> FALSE, log_page |-> 0]
  ELSE IF str_find(offsets, to_string(data_page) \o <<",">>, 0) = 0
  THEN [found |-> TRUE, log_page |-> 0]
  ELSE LET loc == str_find(offsets, <<",">> \o to_string(data_page) \o <<",">>, 0)
       IN IF loc = npos THEN [found |-> FALSE, log_page |-> 0]
          ELSE [found |-> TRUE,
                log_page |-> count_commas_until(offsets, loc, str_find(offsets, <<",">>, 0), 0) + 1]

(* fetch_log_page searching for the offset and its closing comma only,     *)
(* without the comma that closes the entry before it                       *)
fetch_log_page_bare(offsets, data_page) ==
  IF offsets = <<>> THEN [found |-> FALSE, log_page |-> 0]
  ELSE LET at == str_rfind(offsets, to_string(data_page) \o <<",">>)
       IN IF at = npos THEN [found |-> FALSE, log_page |-> 0]
          ELSE IF at = 0 THEN [found |-> TRUE, log_page |-> 0]
          ELSE [found |-> TRUE,
                log_page |->
                  count_commas_until(offsets, str_rfind(SubSeq(offsets, 1, at), <<",">>),
                                     str_find(offsets, <<",">>, 0), 0) + 1]

(* returns [found, log_page] *)
fetch_log_page(offsets, data_page) ==
  IF offsets = <<>> THEN [found |-> FALSE, log_page |-> 0]
  ELSE LET loc == str_rfind(offsets, <<",">> \o to_string(data_page) \o <<",">>)
       IN IF loc = npos
          THEN LET first == str_find(offsets, to_string(data_page) \o <<",">>, 0)
               IN IF first = 0 THEN [found |-> TRUE, log_page |-> 0]
                  ELSE [found |-> FALSE, log_page |-> 0]
          ELSE [found |-> TRUE,
                log_page |-> count_commas_until(offsets, loc, str_find(offsets, <<",">>, 0), 0) + 1]

RECURSIVE count_commas(_, _, _)
count_commas(offsets, loc, count) ==
  IF loc = npos THEN count
  ELSE count_commas(offsets, str_find(offsets, <<",">>, loc + 1), count + 1)

(* next_free_log_page counting from one *)
next_free_log_page_from_one(offsets) ==
  LET count == count_commas(offsets, str_find(offsets, <<",">>, 0), 1)
  IN IF count >= BLOCK_SIZE THEN [ok |-> FALSE, page |-> 0]
     ELSE [ok |-> TRUE, page |-> count]

(* returns [ok, page] *)
next_free_log_page(offsets) ==
  LET count == count_commas(offsets, str_find(offsets, <<",">>, 0), 0)
  IN IF count >= BLOCK_SIZE THEN [ok |-> FALSE, page |-> 0]
     ELSE [ok |-> TRUE, page |-> count]

(* over_erase_limit with > for >= *)
over_erase_limit_strict(s, physical_address) ==
  s.erase_count[physical_address \div BLOCK_SIZE] > BLOCK_ERASES

over_erase_limit(s, physical_address) ==
  s.erase_count[physical_address \div BLOCK_SIZE] >= BLOCK_ERASES

(* update_erase_count indexing the counters by the page address *)
update_erase_count_by_page(s, physical_address) ==
  [s EXCEPT !.erase_count[physical_address % NUM_OF_PHY_B] = @ + 1]

update_erase_count(s, physical_address) ==
  [s EXCEPT !.erase_count[physical_address \div BLOCK_SIZE] = @ + 1]

(* returns the Address fields of a linear physical page index *)
map_physical_to_SSD(phy) ==
  [package |-> ((((phy \div BLOCK_SIZE) \div PLANE_SIZE) \div DIE_SIZE) \div PACKAGE_SIZE) % SSD_SIZE,
   die |-> (((phy \div BLOCK_SIZE) \div PLANE_SIZE) \div DIE_SIZE) % PACKAGE_SIZE,
   plane |-> ((phy \div BLOCK_SIZE) \div PLANE_SIZE) % DIE_SIZE,
   block |-> (phy \div BLOCK_SIZE) % PLANE_SIZE,
   page |-> phy % BLOCK_SIZE]

(* Address(package, die, plane, block, page, valid) built from a mapped    *)
(* block and a page index                                                  *)
Address(m, page, valid) ==
  [package |-> m.package, die |-> m.die, plane |-> m.plane, block |-> m.block,
   page |-> page, valid |-> valid]

(* ---------------------------------------------------------------------- *)
(* The simulated device behind Controller::issue                           *)
(* ---------------------------------------------------------------------- *)
(* index of the physical block an Address names *)
block_of(a) == ((a.package * PACKAGE_SIZE + a.die) * DIE_SIZE + a.plane) * PLANE_SIZE + a.block

(* index of the physical page an Address names *)
page_of(a) == block_of(a) * BLOCK_SIZE + a.page

PhysEvent(type, lba, a, status) ==
  [type |-> type, lba |-> lba, block |-> block_of(a), page |-> a.page, status |-> status]

Page_read(s, a) == IF s.page_state[page_of(a)] = VALID THEN SUCCESS ELSE FAILURE

Page_write(s, a) == IF s.page_state[page_of(a)] = EMPTY THEN SUCCESS ELSE FAILURE

(* Ssd::read: the logical page is no longer pending a read in this block *)
Ssd_read(s, lba, a) ==
  [s EXCEPT !.block_map[block_of(a)] = @ \ {lba},
            !.issued = Append(@, PhysEvent(READ, lba, a, Page_read(s, a)))]

(* Ssd::write carrying payload data; a page that is not EMPTY refuses it *)
Ssd_write(s, lba, a, data) ==
  LET st == Page_write(s, a)
      bm1 == IF lba \in DOMAIN s.ref_map
             THEN [s.block_map EXCEPT ![block_of(s.ref_map[lba])] = @ \ {lba}]
             ELSE s.block_map
      bm2 == [bm1 EXCEPT ![block_of(a)] = @ \cup {lba}]
  IN [s EXCEPT !.block_map = bm2,
               !.ref_map = map_assign(s.ref_map, lba, a),
               !.page_state[page_of(a)] = IF st = SUCCESS THEN VALID ELSE @,
               !.page_data[page_of(a)] = IF st = SUCCESS THEN data ELSE @,
               !.issued = Append(@, PhysEvent(WRITE, lba, a, st))]

(* Block::_erase: refused once the block has no erases remaining *)
Block_erase(s, a) ==
  LET b == block_of(a)
  IN IF s.erases_remaining[b] < 1 THEN [s |-> s, status |-> FAILURE]
     ELSE [s |-> [s EXCEPT !.erases_remaining[b] = @ - 1,
                           !.page_state = [p \in DOMAIN @ |->
                               IF p \div BLOCK_SIZE = b THEN EMPTY ELSE @[p]],
                           !.page_data = [p \in DOMAIN @ |->
                               IF p \div BLOCK_SIZE = b THEN NoData ELSE @[p]]],
           status |-> SUCCESS]

(* Ssd::erase: refused while some logical page last written into the block *)
(* has not been read from it since                                         *)
Ssd_erase(s, lba, a) ==
  LET b == block_of(a)
      s0 == [s EXCEPT !.erase_events[b] = @ + 1]
  IN IF s.block_map[b] # {}
     THEN [s0 EXCEPT !.reads_passed = FALSE,
                     !.issued = Append(@, PhysEvent(ERASE, lba, a, FAILURE))]
     ELSE LET r == Block_erase(s0, a)
          IN [r.s EXCEPT !.issued = Append(@, PhysEvent(ERASE, lba, a, r.status))]

(* evaluates v once and hands its value to F *)
Bind(v, F(_)) == CHOOSE r \in {F(x) : x \in {v}} : TRUE

PageAddress(pba, page) == Address(map_physical_to_SSD(pba), page, "PAGE")

BlockAddress(pba) == Address(map_physical_to_SSD(pba), 0, "BLOCK")

(* READ from src followed by WRITE to des of what was read *)
copy_page(s, lba, src, des) ==
  Bind(Ssd_read(s, lba, src), LAMBDA s1 :
    Ssd_write(s1, lba, des, s.page_data[page_of(src)]))

(* ---------------------------------------------------------------------- *)
(* Garbage collector                                                       *)
(* ---------------------------------------------------------------------- *)
block_non_empty(s, i) ==
  \E j \in 0..(BLOCK_SIZE - 1) : ~check_page_empty(s.logical_to_emptiness, i * BLOCK_SIZE + j)

(* the scan without the test that the block is under the erase cap *)
RECURSIVE scan_empty_data_blocks_capped(_, _, _)
scan_empty_data_blocks_capped(s, i, acc) ==
  IF i >= NUM_OF_LGC_B THEN acc
  ELSE Bind(check_physical_address(s, i * BLOCK_SIZE), LAMBDA data_address :
       Bind(s.erase_count[data_address \div BLOCK_SIZE], LAMBDA count :
       Bind(IF ~block_non_empty(s, i) /\ count < acc.min_count
            THEN [min_count |-> count, address |-> data_address,
                  logical_block |-> i * BLOCK_SIZE]
            ELSE acc, LAMBDA acc1 :
         scan_empty_data_blocks_capped(s, i + 1, acc1))))

(* the scan both finders run; acc = [min_count, address, logical_block] *)
RECURSIVE scan_empty_data_blocks(_, _, _)
scan_empty_data_blocks(s, i, acc) ==
  IF i >= NUM_OF_LGC_B THEN acc
  ELSE Bind(check_physical_address(s, i * BLOCK_SIZE), LAMBDA data_address :
       Bind(s.erase_count[data_address \div BLOCK_SIZE], LAMBDA count :
       Bind(IF ~block_non_empty(s, i) /\ count < acc.min_count /\ count < BLOCK_ERASES
            THEN [min_count |-> count, address |-> data_address,
                  logical_block |-> i * BLOCK_SIZE]
            ELSE acc, LAMBDA acc1 :
         scan_empty_data_blocks(s, i + 1, acc1))))

(* returns [ok, address] *)
find_empty_data_block_for_cleaning(s) ==
  Bind(scan_empty_data_blocks(s, 0,
         [min_count |-> BLOCK_ERASES + 1, address |-> RAW_SIZE, logical_block |-> RAW_SIZE]),
       LAMBDA r : [ok |-> r.min_count # BLOCK_ERASES + 1, address |-> r.address])

(* returns [ok, address, logical_block] *)
find_empty_data_block_for_remapping(s) ==
  Bind(scan_empty_data_blocks(s, 0,
         [min_count |-> BLOCK_ERASES + 1, address |-> RAW_SIZE, logical_block |-> RAW_SIZE]),
       LAMBDA r : [ok |-> r.min_count # BLOCK_ERASES + 1, address |-> r.address,
                   logical_block |-> r.logical_block])

(* Call log: each call of clean, remap_data_block and remap_log_block, and *)
(* each run of shuffle_data_log that got past its scans and its clean,     *)
(* is recorded during a host event with its arguments, the block it        *)
(* acquired, its result and the program state before and after it.         *)
Snapshot(s) == [s EXCEPT !.calls = <<>>]

note_call(s, fn, logical_block, data_pba, log_pba, other, aux, ok, pre) ==
  [s EXCEPT !.calls = Append(@,
     [fn |-> fn, logical_block |-> logical_block, data_pba |-> data_pba, log_pba |-> log_pba,
      other |-> other, aux |-> aux, ok |-> ok, pre |-> Snapshot(pre), post |-> Snapshot(s)])]

(* the page clean reads for offset i: the last copy in the log block if    *)
(* the manifest lists i, else page i of the data block                     *)
clean_source(offsets, i, data_pba, log_pba) ==
  Bind(fetch_log_page(offsets, i), LAMBDA f :
    IF f.found THEN PageAddress(log_pba, f.log_page) ELSE PageAddress(data_pba, i))

(* clean, first loop: live pages of the data/log pair into the cleaning block *)
RECURSIVE clean_copy_out(_, _, _, _, _, _, _)
clean_copy_out(s, i, logical_block, data_pba, log_pba, cln_pba, offsets) ==
  IF i >= BLOCK_SIZE THEN s
  ELSE Bind(IF ~check_page_empty(s.logical_to_emptiness, logical_block + i)
            THEN copy_page(s, logical_block + i,
                           clean_source(offsets, i, data_pba, log_pba),
                           PageAddress(cln_pba, i))
            ELSE s, LAMBDA s1 :
         clean_copy_out(s1, i + 1, logical_block, data_pba, log_pba, cln_pba, offsets))

(* clean, second loop: live pages from the cleaning block back to the data block *)
RECURSIVE clean_copy_back(_, _, _, _, _)
clean_copy_back(s, i, logical_block, data_pba, cln_pba) ==
  IF i >= BLOCK_SIZE THEN s
  ELSE Bind(IF ~check_page_empty(s.logical_to_emptiness, logical_block + i)
            THEN copy_page(s, logical_block + i, PageAddress(cln_pba, i), PageAddress(data_pba, i))
            ELSE s, LAMBDA s1 :
         clean_copy_back(s1, i + 1, logical_block, data_pba, cln_pba))

(* clean erasing the log block before the data block *)
clean_with_log_first(s, logical_block, data_pba, log_pba, cln_pba, garbage) ==
  Bind(note_deref(s, log_pba, any_page_written(s, logical_block)), LAMBDA s0 :
  Bind(clean_copy_out(s0, 0, logical_block, data_pba, log_pba, cln_pba,
                      deref_log_pages(s, log_pba, garbage)), LAMBDA s1 :
  Bind(Ssd_erase(s1, logical_block, BlockAddress(log_pba)), LAMBDA s2 :
  Bind(Ssd_erase(s2, logical_block, BlockAddress(data_pba)), LAMBDA s3 :
  Bind(clean_copy_back(s3, 0, logical_block, data_pba, cln_pba), LAMBDA s4 :
  Bind(Ssd_erase(s4, logical_block, BlockAddress(cln_pba)), LAMBDA s5 :
  Bind(update_erase_count(s5, data_pba), LAMBDA s6 :
  Bind(update_erase_count(s6, log_pba), LAMBDA s7 :
    update_erase_count(s7, cln_pba)))))))))

(* clean erasing the data and log blocks before it has copied them out *)
clean_with_erase_first(s, logical_block, data_pba, log_pba, cln_pba, garbage) ==
  Bind(note_deref(s, log_pba, any_page_written(s, logical_block)), LAMBDA s0 :
  Bind(Ssd_erase(s0, logical_block, BlockAddress(data_pba)), LAMBDA s1 :
  Bind(Ssd_erase(s1, logical_block, BlockAddress(log_pba)), LAMBDA s2 :
  Bind(clean_copy_out(s2, 0, logical_block, data_pba, log_pba, cln_pba,
                      deref_log_pages(s, log_pba, garbage)), LAMBDA s3 :
  Bind(clean_copy_back(s3, 0, logical_block, data_pba, cln_pba), LAMBDA s4 :
  Bind(Ssd_erase(s4, logical_block, BlockAddress(cln_pba)), LAMBDA s5 :
  Bind(update_erase_count(s5, data_pba), LAMBDA s6 :
  Bind(update_erase_count(s6, log_pba), LAMBDA s7 :
    update_erase_count(s7, cln_pba)))))))))

(* clean once the cleaning block cln_pba is found *)
clean_with(s, logical_block, data_pba, log_pba, cln_pba, garbage) ==
  Bind(note_deref(s, log_pba, any_page_written(s, logical_block)), LAMBDA s0 :
  Bind(clean_copy_out(s0, 0, logical_block, data_pba, log_pba, cln_pba,
                      deref_log_pages(s, log_pba, garbage)), LAMBDA s1 :
  Bind(Ssd_erase(s1, logical_block, BlockAddress(data_pba)), LAMBDA s2 :
  Bind(Ssd_erase(s2, logical_block, BlockAddress(log_pba)), LAMBDA s3 :
  Bind(clean_copy_back(s3, 0, logical_block, data_pba, cln_pba), LAMBDA s4 :
  Bind(Ssd_erase(s4, logical_block, BlockAddress(cln_pba)), LAMBDA s5 :
  Bind(update_erase_count(s5, data_pba), LAMBDA s6 :
  Bind(update_erase_count(s6, log_pba), LAMBDA s7 :
    update_erase_count(s7, cln_pba)))))))))

(* returns [s, ok] *)
clean(s, logical_block, data_pba, log_pba, garbage) ==
  Bind(find_empty_data_block_for_cleaning(s), LAMBDA c :
    IF ~c.ok
    THEN [s |-> note_call(s, "clean", logical_block, data_pba, log_pba, RAW_SIZE, RAW_SIZE,
                          FALSE, s),
          ok |-> FALSE]
    ELSE [s |-> note_call(clean_with(s, logical_block, data_pba, log_pba, c.address, garbage),
                          "clean", logical_block, data_pba, log_pba, c.address, RAW_SIZE,
                          TRUE, s),
          ok |-> TRUE])

(* shuffle_data_log, first scan: the data/log pair with the greatest     *)
(* combined erase count; acc = [max_count, log, data]                      *)
RECURSIVE scan_max_pair(_, _, _)
scan_max_pair(s, i, acc) ==
  IF i >= NUM_OF_PHY_B THEN acc
  ELSE Bind(check_log_block(s, i * BLOCK_SIZE), LAMBDA c :
       Bind(IF c.ok THEN s.erase_count[c.log_address \div BLOCK_SIZE] ELSE 0, LAMBDA log_count :
       Bind(s.erase_count[i], LAMBDA data_count :
       Bind(IF c.ok /\ log_count # BLOCK_ERASES /\ data_count # BLOCK_ERASES
                    /\ (log_count + data_count) >= acc.max_count
            THEN [max_count |-> log_count + data_count, log |-> c.log_address,
                  data |-> i * BLOCK_SIZE]
            ELSE acc, LAMBDA acc1 :
         scan_max_pair(s, i + 1, acc1)))))

(* the first logical block whose data block is at address to_match, else RAW_SIZE *)
RECURSIVE find_logical_block(_, _, _)
find_logical_block(s, i, to_match) ==
  IF i >= NUM_OF_LGC_B THEN RAW_SIZE
  ELSE IF check_physical_address(s, i * BLOCK_SIZE) = to_match THEN i * BLOCK_SIZE
  ELSE find_logical_block(s, i + 1, to_match)

(* the third scan without the test that the data block has no log block *)
RECURSIVE scan_min_data_any(_, _, _)
scan_min_data_any(s, i, acc) ==
  IF i >= NUM_OF_LGC_B THEN acc
  ELSE Bind(check_physical_address(s, i * BLOCK_SIZE), LAMBDA data_address :
       Bind(s.erase_count[data_address \div BLOCK_SIZE], LAMBDA count :
       Bind(IF count < acc.min_count
            THEN [min_count |-> count, data |-> data_address]
            ELSE acc, LAMBDA acc1 :
         scan_min_data_any(s, i + 1, acc1))))

(* shuffle_data_log, third scan: the least erased data block without a log *)
(* block; acc = [min_count, data]                                          *)
RECURSIVE scan_min_data(_, _, _)
scan_min_data(s, i, acc) ==
  IF i >= NUM_OF_LGC_B THEN acc
  ELSE Bind(check_physical_address(s, i * BLOCK_SIZE), LAMBDA data_address :
       Bind(s.erase_count[data_address \div BLOCK_SIZE], LAMBDA count :
       Bind(IF ~check_log_block(s, data_address).ok /\ count < acc.min_count
            THEN [min_count |-> count, data |-> data_address]
            ELSE acc, LAMBDA acc1 :
         scan_min_data(s, i + 1, acc1))))

(* shuffle_data_log, copy loop: written pages of the least erased data     *)
(* block into the cleaned log block, each at its own offset                *)
RECURSIVE shuffle_copy(_, _, _, _, _)
shuffle_copy(s, i, logical_block, min_erase_data, max_erase_log) ==
  IF i >= BLOCK_SIZE THEN s
  ELSE Bind(IF ~check_page_empty(s.logical_to_emptiness, logical_block + i)
            THEN copy_page(s, logical_block + i, PageAddress(min_erase_data, i),
                           PageAddress(max_erase_log, i))
            ELSE s, LAMBDA s1 :
         shuffle_copy(s1, i + 1, logical_block, min_erase_data, max_erase_log))

(* shuffle_data_log after clean returned true: unmap the cleaned pair,     *)
(* move the least erased data block into the cleaned log block, erase it   *)
(* and push it on the pool                                                 *)
shuffle_swap(s, max_erase_data, max_erase_log, min_erase_data) ==
  Bind(cancel_log_block(s, max_erase_data), LAMBDA s1 :
  Bind(find_logical_block(s1, 0, min_erase_data), LAMBDA logical_block :
    IF logical_block = RAW_SIZE THEN [s |-> s1, ok |-> FALSE]
    ELSE Bind(shuffle_copy(s1, 0, logical_block, min_erase_data, max_erase_log), LAMBDA s2 :
         Bind(Ssd_erase(s2, logical_block, BlockAddress(min_erase_data)), LAMBDA s3 :
         Bind(set_physical_address(s3, logical_block, max_erase_log), LAMBDA s4 :
           [s |-> [s4 EXCEPT !.op_blocks = Append(@, min_erase_data)], ok |-> TRUE])))))

(* shuffle_data_log once the pair and its logical block are found *)
shuffle_with(s, logical_block, max_erase_data, max_erase_log, garbage) ==
  Bind(scan_min_data(s, 0, [min_count |-> BLOCK_ERASES + 1, data |-> RAW_SIZE]), LAMBDA mn :
    IF mn.data = RAW_SIZE THEN [s |-> s, ok |-> FALSE]
    ELSE IF mn.min_count >= BLOCK_ERASES - 1 THEN [s |-> s, ok |-> FALSE]
    ELSE Bind(clean(s, logical_block, max_erase_data, max_erase_log, garbage), LAMBDA c :
           IF ~c.ok THEN [s |-> c.s, ok |-> FALSE]
           ELSE Bind(shuffle_swap(c.s, max_erase_data, max_erase_log, mn.data), LAMBDA w :
                  [s |-> note_call(w.s, "shuffle_data_log", logical_block, max_erase_data,
                                   max_erase_log, mn.data, RAW_SIZE, w.ok, s),
                   ok |-> w.ok])))

(* returns [s, ok] *)
shuffle_data_log(s, garbage) ==
  Bind(scan_max_pair(s, 0, [max_count |-> 0, log |-> RAW_SIZE, data |-> RAW_SIZE]), LAMBDA mx :
    IF mx.data = RAW_SIZE \/ mx.log = RAW_SIZE THEN [s |-> s, ok |-> FALSE]
    ELSE Bind(find_logical_block(s, 0, mx.data), LAMBDA logical_block :
           IF logical_block = RAW_SIZE THEN [s |-> s, ok |-> FALSE]
           ELSE shuffle_with(s, logical_block, mx.data, mx.log, garbage)))

(* a pop loop that hands out the top of the pool and leaves it there *)
RECURSIVE pop_log_block_keep(_, _)
pop_log_block_keep(s, i) ==
  IF i >= Len(s.op_blocks) THEN [s |-> s, ok |-> FALSE, log_address |-> RAW_SIZE]
  ELSE Bind(s.op_blocks[Len(s.op_blocks) - i], LAMBDA log_address :
         IF ~over_erase_limit(s, log_address)
         THEN [s |-> s, ok |-> TRUE, log_address |-> log_address]
         ELSE pop_log_block_keep(s, i + 1))

(* next_unmapped_log_block, the pop loop; i counts the blocks skipped *)
RECURSIVE pop_log_block(_, _)
pop_log_block(s, i) ==
  IF i >= Len(s.op_blocks) THEN [s |-> s, ok |-> FALSE, log_address |-> RAW_SIZE]
  ELSE Bind(s.op_blocks[Len(s.op_blocks) - i], LAMBDA log_address :
       Bind([s EXCEPT !.op_blocks = SubSeq(@, 1, Len(@) - 1)], LAMBDA s1 :
         IF ~over_erase_limit(s1, log_address)
         THEN [s |-> s1, ok |-> TRUE, log_address |-> log_address]
         ELSE pop_log_block(s1, i + 1)))

(* returns [s, ok, log_address] *)
next_unmapped_log_block(s, garbage) ==
  Bind(IF s.op_blocks = <<>> THEN shuffle_data_log(s, garbage) ELSE [s |-> s, ok |-> TRUE],
       LAMBDA sh :
    IF ~sh.ok THEN [s |-> sh.s, ok |-> FALSE, log_address |-> RAW_SIZE]
    ELSE pop_log_block(sh.s, 0))

(* a copy loop that moves every written page, whether or not the log       *)
(* block holds a later copy                                                *)
RECURSIVE remap_data_copy_all(_, _, _, _, _, _)
remap_data_copy_all(s, i, logical_block, old_data_pba, new_data_pba, offsets) ==
  IF i >= BLOCK_SIZE THEN s
  ELSE Bind(IF ~check_page_empty(s.logical_to_emptiness, logical_block + i)
            THEN copy_page(s, logical_block + i, PageAddress(old_data_pba, i),
                           PageAddress(new_data_pba, i))
            ELSE s, LAMBDA s1 :
         remap_data_copy_all(s1, i + 1, logical_block, old_data_pba, new_data_pba, offsets))

(* remap_data_block, copy loop: written pages with no copy in the log block *)
RECURSIVE remap_data_copy(_, _, _, _, _, _)
remap_data_copy(s, i, logical_block, old_data_pba, new_data_pba, offsets) ==
  IF i >= BLOCK_SIZE THEN s
  ELSE Bind(IF ~check_page_empty(s.logical_to_emptiness, logical_block + i)
               /\ ~fetch_log_page(offsets, i).found
            THEN copy_page(s, logical_block + i, PageAddress(old_data_pba, i),
                           PageAddress(new_data_pba, i))
            ELSE s, LAMBDA s1 :
         remap_data_copy(s1, i + 1, logical_block, old_data_pba, new_data_pba, offsets))

(* a remap that redirects the logical block to the new data block and     *)
(* leaves the empty logical block it took it from pointing there as well   *)
remap_data_with_no_swap(s, logical_block, old_data_pba, log_pba, new_data_pba, new_logical_block, garbage) ==
  Bind(note_deref(s, log_pba, any_page_written(s, logical_block)), LAMBDA s0 :
  Bind(remap_data_copy(s0, 0, logical_block, old_data_pba, new_data_pba,
                       deref_log_pages(s, log_pba, garbage)), LAMBDA s1 :
  Bind(set_physical_address(s1, logical_block, new_data_pba), LAMBDA s3 :
  Bind(set_log_block(s3, old_data_pba, old_data_pba), LAMBDA s4 :
    set_log_block(s4, new_data_pba, log_pba)))))

(* a remap that clears the old data block's log mapping with              *)
(* cancel_log_block, which also drops the manifest of the log block        *)
remap_data_with_cancel(s, logical_block, old_data_pba, log_pba, new_data_pba, new_logical_block, garbage) ==
  Bind(note_deref(s, log_pba, any_page_written(s, logical_block)), LAMBDA s0 :
  Bind(remap_data_copy(s0, 0, logical_block, old_data_pba, new_data_pba,
                       deref_log_pages(s, log_pba, garbage)), LAMBDA s1 :
  Bind(IF new_logical_block # RAW_SIZE
       THEN set_physical_address(s1, new_logical_block, old_data_pba) ELSE s1, LAMBDA s2 :
  Bind(set_physical_address(s2, logical_block, new_data_pba), LAMBDA s3 :
  Bind(cancel_log_block(s3, old_data_pba), LAMBDA s4 :
    set_log_block(s4, new_data_pba, log_pba))))))

(* remap_data_block once the new data block is found; new_logical_block is *)
(* the empty logical block it was taken from, or RAW_SIZE                  *)
remap_data_with(s, logical_block, old_data_pba, log_pba, new_data_pba, new_logical_block, garbage) ==
  Bind(note_deref(s, log_pba, any_page_written(s, logical_block)), LAMBDA s0 :
  Bind(remap_data_copy(s0, 0, logical_block, old_data_pba, new_data_pba,
                       deref_log_pages(s, log_pba, garbage)), LAMBDA s1 :
  Bind(IF new_logical_block # RAW_SIZE
       THEN set_physical_address(s1, new_logical_block, old_data_pba) ELSE s1, LAMBDA s2 :
  Bind(set_physical_address(s2, logical_block, new_data_pba), LAMBDA s3 :
  Bind(set_log_block(s3, old_data_pba, old_data_pba), LAMBDA s4 :
    set_log_block(s4, new_data_pba, log_pba))))))

(* returns [s, ret]; ret = log_pba reports failure *)
remap_data_block(s, logical_block, old_data_pba, log_pba, garbage) ==
  Bind(find_empty_data_block_for_remapping(s), LAMBDA e :
    IF e.ok
    THEN [s |-> note_call(remap_data_with(s, logical_block, old_data_pba, log_pba, e.address,
                                          e.logical_block, garbage),
                          "remap_data_block", logical_block, old_data_pba, log_pba, e.address,
                          e.logical_block, TRUE, s),
          ret |-> e.address]
    ELSE Bind(next_unmapped_log_block(s, garbage), LAMBDA n :
           IF ~n.ok
           THEN [s |-> note_call(n.s, "remap_data_block", logical_block, old_data_pba, log_pba,
                                 log_pba, RAW_SIZE, FALSE, s),
                 ret |-> log_pba]
           ELSE [s |-> note_call(remap_data_with(n.s, logical_block, old_data_pba, log_pba,
                                                 n.log_address, RAW_SIZE, garbage),
                                 "remap_data_block", logical_block, old_data_pba, log_pba,
                                 n.log_address, RAW_SIZE, TRUE, s),
                 ret |-> n.log_address]))

(* a copy loop that keeps every page at its data-block offset in the new   *)
(* log block                                                               *)
RECURSIVE remap_log_copy_in_place(_, _, _, _, _, _)
remap_log_copy_in_place(acc, i, logical_block, old_log_pba, new_log_pba, old_offsets) ==
  IF i >= BLOCK_SIZE THEN acc
  ELSE Bind(fetch_log_page(old_offsets, i), LAMBDA f :
       Bind(IF ~check_page_empty(acc.s.logical_to_emptiness, logical_block + i) /\ f.found
            THEN [s |-> copy_page(acc.s, logical_block + i,
                                  PageAddress(old_log_pba, f.log_page),
                                  PageAddress(new_log_pba, i)),
                  j |-> acc.j + 1,
                  offsets |-> acc.offsets \o to_string(i) \o <<",">>]
            ELSE acc, LAMBDA acc1 :
         remap_log_copy_in_place(acc1, i + 1, logical_block, old_log_pba, new_log_pba,
                                 old_offsets)))

(* remap_log_block, copy loop; acc = [s, j, offsets] *)
RECURSIVE remap_log_copy(_, _, _, _, _, _)
remap_log_copy(acc, i, logical_block, old_log_pba, new_log_pba, old_offsets) ==
  IF i >= BLOCK_SIZE THEN acc
  ELSE Bind(fetch_log_page(old_offsets, i), LAMBDA f :
       Bind(IF ~check_page_empty(acc.s.logical_to_emptiness, logical_block + i) /\ f.found
            THEN [s |-> copy_page(acc.s, logical_block + i,
                                  PageAddress(old_log_pba, f.log_page),
                                  PageAddress(new_log_pba, acc.j)),
                  j |-> acc.j + 1,
                  offsets |-> acc.offsets \o to_string(i) \o <<",">>]
            ELSE acc, LAMBDA acc1 :
         remap_log_copy(acc1, i + 1, logical_block, old_log_pba, new_log_pba, old_offsets)))

(* a remap of the log block that also erases the block it has left *)
remap_log_with_erase(s, logical_block, data_pba, old_log_pba, new_log_pba, garbage) ==
  Bind(note_deref(s, old_log_pba, any_page_written(s, logical_block)), LAMBDA s0 :
  Bind(remap_log_copy([s |-> s0, j |-> 0, offsets |-> <<>>], 0, logical_block,
                      old_log_pba, new_log_pba, deref_log_pages(s, old_log_pba, garbage)),
       LAMBDA r :
  Bind(Ssd_erase(r.s, logical_block, BlockAddress(old_log_pba)), LAMBDA s1 :
  Bind(cancel_log_block(s1, data_pba), LAMBDA s2 :
  Bind(set_log_block(s2, data_pba, new_log_pba), LAMBDA s3 :
    [s3 EXCEPT !.log_to_pages = map_assign(@, new_log_pba, r.offsets)])))))

(* remap_log_block once the new log block is found *)
remap_log_with(s, logical_block, data_pba, old_log_pba, new_log_pba, garbage) ==
  Bind(note_deref(s, old_log_pba, any_page_written(s, logical_block)), LAMBDA s0 :
  Bind(remap_log_copy([s |-> s0, j |-> 0, offsets |-> <<>>], 0, logical_block,
                      old_log_pba, new_log_pba, deref_log_pages(s, old_log_pba, garbage)),
       LAMBDA r :
  Bind(cancel_log_block(r.s, data_pba), LAMBDA s1 :
  Bind(set_log_block(s1, data_pba, new_log_pba), LAMBDA s2 :
    [s2 EXCEPT !.log_to_pages = map_assign(@, new_log_pba, r.offsets)]))))

(* returns [s, ret]; ret = data_pba reports failure *)
remap_log_block(s, logical_block, data_pba, old_log_pba, garbage) ==
  Bind(next_unmapped_log_block(s, garbage), LAMBDA n :
    IF ~n.ok
    THEN [s |-> note_call(n.s, "remap_log_block", logical_block, data_pba, old_log_pba,
                          data_pba, RAW_SIZE, FALSE, s),
          ret |-> data_pba]
    ELSE [s |-> note_call(remap_log_with(n.s, logical_block, data_pba, old_log_pba,
                                         n.log_address, garbage),
                          "remap_log_block", logical_block, data_pba, old_log_pba,
                          n.log_address, RAW_SIZE, TRUE, s),
          ret |-> n.log_address])

(* ---------------------------------------------------------------------- *)
(* Ftl::translate; returns [s, status, address]                            *)
(* ---------------------------------------------------------------------- *)
(* a failure return that has already put an address in the event *)
Failed_with_address(s) ==
  [s |-> s, status |-> FAILURE, address |-> [NoAddress EXCEPT !.valid = "PAGE"]]

Failed(s) == [s |-> s, status |-> FAILURE, address |-> NoAddress]

(* the full-log WRITE path appending to the manifest after the clean       *)
(* instead of restarting it                                                *)
translate_do_clean_append(s, logical_address, page, data_address, log_address, garbage) ==
  Bind(clean(s, logical_address - page, data_address, log_address, garbage), LAMBDA c :
    IF ~c.ok THEN Failed(c.s)
    ELSE [s |-> [c.s EXCEPT !.log_to_pages =
                   map_assign(@, log_address,
                              deref_log_pages(c.s, log_address, <<>>) \o to_string(page) \o <<",">>)],
          status |-> SUCCESS,
          address |-> PageAddress(log_address, 0)])

(* the full-log WRITE path from the call of clean on *)
translate_do_clean(s, logical_address, page, data_address, log_address, garbage) ==
  Bind(clean(s, logical_address - page, data_address, log_address, garbage), LAMBDA c :
    IF ~c.ok THEN Failed(c.s)
    ELSE [s |-> [c.s EXCEPT !.log_to_pages =
                   map_assign(@, log_address, to_string(page) \o <<",">>)],
          status |-> SUCCESS,
          address |-> PageAddress(log_address, 0)])

(* the full-log WRITE path from the erase-limit test of the log block on *)
translate_remap_log(s, logical_address, page, data_address, log_address, garbage) ==
  IF over_erase_limit(s, log_address)
  THEN Bind(remap_log_block(s, logical_address - page, data_address, log_address, garbage),
            LAMBDA r :
         IF r.ret = data_address THEN Failed(r.s)
         ELSE translate_do_clean(r.s, logical_address, page, data_address, r.ret, garbage))
  ELSE translate_do_clean(s, logical_address, page, data_address, log_address, garbage)

(* a full-log WRITE path that never remaps the data block *)
translate_clean_no_data_remap(s, logical_address, page, data_address, log_address, garbage) ==
  translate_remap_log(s, logical_address, page, data_address, log_address, garbage)

(* the WRITE path when the mapped log block has no free page: remap what   *)
(* is at the erase limit, clean, restart the manifest                      *)
translate_clean(s, logical_address, page, data_address, log_address, garbage) ==
  IF over_erase_limit(s, data_address)
  THEN Bind(remap_data_block(s, logical_address - page, data_address, log_address, garbage),
            LAMBDA r :
         IF log_address = r.ret THEN Failed(r.s)
         ELSE translate_remap_log(r.s, logical_address, page, r.ret, log_address, garbage))
  ELSE translate_remap_log(s, logical_address, page, data_address, log_address, garbage)

(* the WRITE path when a log block is mapped to the data block *)
translate_log(s, logical_address, page, data_address, log_address, garbage) ==
  Bind(deref_log_pages(s, log_address, garbage), LAMBDA offsets :
  Bind(next_free_log_page(offsets), LAMBDA nf :
  Bind(note_deref(s, log_address, TRUE), LAMBDA sd :
    IF nf.ok
    THEN [s |-> [sd EXCEPT !.log_to_pages =
                   map_assign(@, log_address, offsets \o to_string(page) \o <<",">>)],
          status |-> SUCCESS,
          address |-> PageAddress(log_address, nf.page)]
    ELSE translate_clean(sd, logical_address, page, data_address, log_address, garbage))))

(* a no-log WRITE path that records the manifest before it looks at what  *)
(* next_unmapped_log_block returned                                        *)
translate_allocate_eager(s, page, data_address, garbage) ==
  Bind(next_unmapped_log_block(s, garbage), LAMBDA n :
  Bind([n.s EXCEPT !.log_to_pages = map_insert(@, n.log_address, to_string(page) \o <<",">>)],
       LAMBDA s0 :
    IF n.ok
    THEN [s |-> set_log_block(s0, data_address, n.log_address), status |-> SUCCESS,
          address |-> PageAddress(n.log_address, 0)]
    ELSE Failed(s0)))

(* the WRITE path when no log block is mapped to the data block *)
translate_allocate(s, page, data_address, garbage) ==
  Bind(next_unmapped_log_block(s, garbage), LAMBDA n :
    IF n.ok
    THEN Bind(set_log_block(n.s, data_address, n.log_address), LAMBDA s1 :
           [s |-> [s1 EXCEPT !.log_to_pages =
                     map_insert(@, n.log_address, to_string(page) \o <<",">>)],
            status |-> SUCCESS,
            address |-> PageAddress(n.log_address, 0)])
    ELSE Failed(n.s))

(* a WRITE path that sends the first write of a page to the log block too *)
translate_write_log_first(s, logical_address, m, data_address, garbage) ==
  Bind([s EXCEPT !.logical_to_emptiness = set_page_written(@, logical_address)], LAMBDA s0 :
  Bind(check_log_block(s0, data_address), LAMBDA c :
    IF c.ok
    THEN translate_log(s0, logical_address, m.page, data_address, c.log_address, garbage)
    ELSE translate_allocate(s0, m.page, data_address, garbage)))

translate_write(s, logical_address, m, data_address, garbage) ==
  IF check_page_empty(s.logical_to_emptiness, logical_address)
  THEN [s |-> [s EXCEPT !.logical_to_emptiness = set_page_written(@, logical_address)],
        status |-> SUCCESS, address |-> Address(m, m.page, "PAGE")]
  ELSE Bind(check_log_block(s, data_address), LAMBDA c :
         IF c.ok
         THEN translate_log(s, logical_address, m.page, data_address, c.log_address, garbage)
         ELSE translate_allocate(s, m.page, data_address, garbage))

(* the READ path for a written page: the latest copy in the log block, or  *)
(* the page's own slot in the data block                                   *)
translate_read_resolve(s, m, data_address, garbage) ==
  Bind(check_log_block(s, data_address), LAMBDA c :
    IF ~c.ok THEN [s |-> s, status |-> SUCCESS, address |-> Address(m, m.page, "PAGE")]
    ELSE Bind(fetch_log_page(deref_log_pages(s, c.log_address, garbage), m.page), LAMBDA f :
         Bind(note_deref(s, c.log_address, TRUE), LAMBDA sd :
           IF f.found
           THEN [s |-> sd, status |-> SUCCESS,
                 address |-> PageAddress(c.log_address, f.log_page)]
           ELSE [s |-> sd, status |-> SUCCESS, address |-> Address(m, m.page, "PAGE")])))

(* a READ path that marks the page written before it looks at the bit's    *)
(* old value                                                               *)
translate_read_marking(s, logical_address, m, data_address, garbage) ==
  IF check_page_empty(s.logical_to_emptiness, logical_address)
  THEN Failed([s EXCEPT !.logical_to_emptiness = set_page_written(@, logical_address)])
  ELSE translate_read_resolve(s, m, data_address, garbage)

(* a READ path without the test of the written bit *)
translate_read_unchecked(s, logical_address, m, data_address, garbage) ==
  translate_read_resolve(s, m, data_address, garbage)

translate_read(s, logical_address, m, data_address, garbage) ==
  IF check_page_empty(s.logical_to_emptiness, logical_address) THEN Failed(s)
  ELSE translate_read_resolve(s, m, data_address, garbage)

(* a translate that serves a host ERASE the way it serves a WRITE *)
translate_erase_as_write(s, operation, logical_address, garbage) ==
  IF logical_address >= USABLE_SIZE THEN Failed(s)
  ELSE Bind(check_physical_address(s, logical_address), LAMBDA physical_address :
       Bind(map_physical_to_SSD(physical_address), LAMBDA m :
         IF operation \in {WRITE, ERASE}
         THEN translate_write(s, logical_address, m, physical_address - m.page, garbage)
         ELSE IF operation = READ
         THEN translate_read(s, logical_address, m, physical_address - m.page, garbage)
         ELSE Failed(s)))

translate(s, operation, logical_address, garbage) ==
  IF logical_address >= USABLE_SIZE THEN Failed(s)
  ELSE Bind(check_physical_address(s, logical_address), LAMBDA physical_address :
       Bind(map_physical_to_SSD(physical_address), LAMBDA m :
         IF operation = WRITE
         THEN translate_write(s, logical_address, m, physical_address - m.page, garbage)
         ELSE IF operation = READ
         THEN translate_read(s, logical_address, m, physical_address - m.page, garbage)
         ELSE Failed(s)))

(* ---------------------------------------------------------------------- *)
(* State                                                                   *)
(* ---------------------------------------------------------------------- *)
VARIABLES
  logical_to_emptiness,  \* bitmap words, one bit per logical page
  erase_count,           \* the FTL's per-block erase counter
  logical_to_physical,   \* logical block -> data block, as an offset
  data_to_log,           \* data block -> log block, as an offset; 0 = none
  log_to_pages,          \* log block address -> manifest string
  op_blocks,             \* free pool (stack, top is the last element)
  page_state,            \* device: EMPTY / VALID per physical page
  erases_remaining,      \* device: erases left per physical block
  ref_map,               \* Ssd: logical page -> Address of its last write
  block_map,             \* Ssd: block -> logical pages written there, not yet read back
  reads_passed,          \* Ssd: no erase was refused for a pending read
  page_data,             \* payload held by each physical page
  erase_events,          \* number of ERASE events issued per physical block
  ub_deref               \* some call dereferenced log_to_pages.end()

vars == <<geometry, logical_to_emptiness, erase_count, logical_to_physical, data_to_log,
          log_to_pages, op_blocks, page_state, erases_remaining, ref_map, block_map,
          reads_passed, page_data, erase_events, ub_deref>>

(* the program state as the record the operators above work on *)
cur == [logical_to_emptiness |-> logical_to_emptiness, erase_count |-> erase_count,
        logical_to_physical |-> logical_to_physical, data_to_log |-> data_to_log,
        log_to_pages |-> log_to_pages, op_blocks |-> op_blocks, page_state |-> page_state,
        erases_remaining |-> erases_remaining, ref_map |-> ref_map, block_map |-> block_map,
        reads_passed |-> reads_passed, page_data |-> page_data,
        erase_events |-> erase_events, issued |-> <<>>, ub_deref |-> ub_deref,
        calls |-> <<>>]

(* what dereferencing log_to_pages.end() may yield *)
GarbageStrings == {<<>>, <<"0", ",">>}

(* host addresses tried: every legal one and the first illegal one *)
HostAddresses == 0..USABLE_SIZE

(* host READs are issued for the logical pages up to MaxReadLba and for    *)
(* the first illegal address                                               *)
MaxReadLba == 0
ReadAddresses == (0..MaxReadLba) \cup {USABLE_SIZE}

(* host ERASE and MERGE events, which translate refuses whatever the       *)
(* address, are issued for one legal address and the first illegal one     *)
UnsupportedAddresses == {0, USABLE_SIZE}

(* an initialisation whose pool loop pushes the first over-provisioned    *)
(* block at every turn                                                     *)
Init_pool_repeated ==
  /\ geometry \in Configurations
  /\ logical_to_emptiness = [w \in 0..(emp_len - 1) |-> 0]
  /\ erase_count = [b \in 0..(NUM_OF_PHY_B - 1) |-> 0]
  /\ logical_to_physical = [b \in 0..(NUM_OF_LGC_B - 1) |-> 0]
  /\ data_to_log = [b \in 0..(NUM_OF_PHY_B - 1) |-> 0]
  /\ log_to_pages = <<>>
  /\ op_blocks = [k \in 1..NUM_OF_OP_B |-> USABLE_SIZE]
  /\ page_state = [p \in 0..(RAW_SIZE - 1) |-> EMPTY]
  /\ erases_remaining = [b \in 0..(NUM_OF_PHY_B - 1) |-> BLOCK_ERASES]
  /\ ref_map = <<>>
  /\ block_map = [b \in 0..(NUM_OF_PHY_B - 1) |-> {}]
  /\ reads_passed = TRUE
  /\ page_data = [p \in 0..(RAW_SIZE - 1) |-> NoData]
  /\ erase_events = [b \in 0..(NUM_OF_PHY_B - 1) |-> 0]
  /\ ub_deref = FALSE

(* Ftl::init_ftl_user, Ssd::Ssd and the Block / Page constructors *)
Init ==
  /\ geometry \in Configurations
  /\ logical_to_emptiness = [w \in 0..(emp_len - 1) |-> 0]
  /\ erase_count = [b \in 0..(NUM_OF_PHY_B - 1) |-> 0]
  /\ logical_to_physical = [b \in 0..(NUM_OF_LGC_B - 1) |-> 0]
  /\ data_to_log = [b \in 0..(NUM_OF_PHY_B - 1) |-> 0]
  /\ log_to_pages = <<>>
  /\ op_blocks = [k \in 1..NUM_OF_OP_B |-> USABLE_SIZE + (k - 1) * BLOCK_SIZE]
  /\ page_state = [p \in 0..(RAW_SIZE - 1) |-> EMPTY]
  /\ erases_remaining = [b \in 0..(NUM_OF_PHY_B - 1) |-> BLOCK_ERASES]
  /\ ref_map = <<>>
  /\ block_map = [b \in 0..(NUM_OF_PHY_B - 1) |-> {}]
  /\ reads_passed = TRUE
  /\ page_data = [p \in 0..(RAW_SIZE - 1) |-> NoData]
  /\ erase_events = [b \in 0..(NUM_OF_PHY_B - 1) |-> 0]
  /\ ub_deref = FALSE

NoEvent == [type |-> "NONE", lba |-> 0, block |-> 0, page |-> 0, status |-> FAILURE]

(* a host write supersedes every older copy of the logical page *)
supersede(s, lba) ==
  [s EXCEPT !.page_data = [p \in DOMAIN @ |->
      IF @[p].lba = lba THEN [lba |-> lba, latest |-> FALSE] ELSE @[p]]]

(* Controller::event_arrive: translate, then the host's own READ or WRITE  *)
(* at the address translate chose.  Returns [s, status, address, issued,   *)
(* host]: the state after the event, what translate returned and put in    *)
(* the event, the physical events translate issued, and the host's own     *)
(* physical event (NoEvent when translate failed).                         *)
event_arrive(s, type, lba, garbage) ==
  Bind(translate(s, type, lba, garbage), LAMBDA t :
  Bind(IF t.status # SUCCESS THEN t.s
       ELSE IF type = READ THEN Ssd_read(t.s, lba, t.address)
       ELSE Ssd_write(supersede(t.s, lba), lba, t.address, [lba |-> lba, latest |-> TRUE]),
       LAMBDA h :
    [s |-> h, status |-> t.status, address |-> t.address, issued |-> t.s.issued,
     host |-> IF t.status # SUCCESS THEN NoEvent ELSE h.issued[Len(h.issued)]]))

Commit(r) ==
  /\ geometry' = geometry
  /\ logical_to_emptiness' = r.s.logical_to_emptiness
  /\ erase_count' = r.s.erase_count
  /\ logical_to_physical' = r.s.logical_to_physical
  /\ data_to_log' = r.s.data_to_log
  /\ log_to_pages' = r.s.log_to_pages
  /\ op_blocks' = r.s.op_blocks
  /\ page_state' = r.s.page_state
  /\ erases_remaining' = r.s.erases_remaining
  /\ ref_map' = r.s.ref_map
  /\ block_map' = r.s.block_map
  /\ reads_passed' = r.s.reads_passed
  /\ page_data' = r.s.page_data
  /\ erase_events' = r.s.erase_events
  /\ ub_deref' = r.s.ub_deref

(* The outcomes of one host event.  The garbage read through an end        *)
(* iterator is a free choice in the calls that read it; the other calls    *)
(* never look at it.                                                       *)
Outcomes(s, type, lba) ==
  Bind(event_arrive(s, type, lba, <<>>), LAMBDA r :
    IF r.s.ub_deref THEN {event_arrive(s, type, lba, g) : g \in GarbageStrings}
    ELSE {r})

HostWrite == \E lba \in HostAddresses : \E r \in Outcomes(cur, WRITE, lba) : Commit(r)

HostRead == \E lba \in ReadAddresses : \E r \in Outcomes(cur, READ, lba) : Commit(r)

HostErase == \E lba \in UnsupportedAddresses : \E r \in Outcomes(cur, ERASE, lba) : Commit(r)

HostMerge == \E lba \in UnsupportedAddresses : \E r \in Outcomes(cur, MERGE, lba) : Commit(r)

Next == HostWrite \/ HostRead \/ HostErase \/ HostMerge

Spec == Init /\ [][Next]_vars

(* ---------------------------------------------------------------------- *)
(* Vocabulary of the properties                                            *)
(* ---------------------------------------------------------------------- *)
LogicalPages == 0..(USABLE_SIZE - 1)
PhysicalBlocks == 0..(NUM_OF_PHY_B - 1)
EventTypes == {READ, WRITE, ERASE, MERGE}

(* the written bit of logical page lba *)
Written(lba) == ~check_page_empty(logical_to_emptiness, lba)

Offset(lba) == lba % BLOCK_SIZE

(* index of the data block of the logical block lba lies in *)
DataBlockOf(l2p, lba) == (lba \div BLOCK_SIZE) + l2p[lba \div BLOCK_SIZE]

(* a log block is mapped to block d *)
HasLog(d2l, d) == d2l[d] # 0

LogBlockOf(d2l, d) == d + d2l[d]

(* the list of offsets a manifest string records *)
DigitValue(c) == CHOOSE d \in 0..9 : Digit(d) = c

RECURSIVE ParseManifest(_, _, _, _)
ParseManifest(str, i, num, out) ==
  IF i > Len(str) THEN out
  ELSE IF str[i] = "," THEN ParseManifest(str, i + 1, 0, Append(out, num))
  ELSE ParseManifest(str, i + 1, num * 10 + DigitValue(str[i]), out)

(* the manifest of log block b in table l2pg, as a list; <<>> if none *)
ManifestOf(l2pg, b) ==
  IF b * BLOCK_SIZE \in DOMAIN l2pg THEN ParseManifest(l2pg[b * BLOCK_SIZE], 1, 0, <<>>)
  ELSE <<>>

(* 0-based index of the last occurrence of x in list m, or -1 *)
LastIndexOf(m, x) ==
  IF \E k \in 1..Len(m) : m[k] = x
  THEN (CHOOSE k \in 1..Len(m) : m[k] = x /\ \A j \in (k + 1)..Len(m) : m[j] # x) - 1
  ELSE -1

(* the FTL tables are left as they were by outcome r *)
TablesUnchanged(r) ==
  /\ r.s.logical_to_emptiness = logical_to_emptiness
  /\ r.s.logical_to_physical = logical_to_physical
  /\ r.s.data_to_log = data_to_log
  /\ r.s.log_to_pages = log_to_pages
  /\ r.s.erase_count = erase_count
  /\ r.s.op_blocks = op_blocks

(* every physical event of the host event with outcome r, in order *)
AllEvents(r) == IF r.host = NoEvent THEN r.issued ELSE Append(r.issued, r.host)

(* the program state outcome r leaves for the next host event *)
After(r) == [r.s EXCEPT !.issued = <<>>, !.calls = <<>>]

(* ---------------------------------------------------------------------- *)
(* Properties                                                              *)
(* ---------------------------------------------------------------------- *)

(* C1: read-after-write.  In every reachable state, for every logical page *)
(* L whose written bit is set, a READ translate of L succeeds and resolves *)
(* to the physical page that the last write carrying L went to, and that   *)
(* page holds the latest value the host wrote to L.                        *)
C1_ReadAfterWrite ==
  \A lba \in LogicalPages : Written(lba) =>
    \A r \in Outcomes(cur, READ, lba) :
      /\ r.status = SUCCESS
      /\ page_data[page_of(r.address)] = [lba |-> lba, latest |-> TRUE]

(* C2: erase-before-write.  In every reachable state, every physical WRITE *)
(* a host WRITE causes (those translate issues through clean, the remaps   *)
(* and shuffle_data_log, and the host's own write at the returned address) *)
(* targets a page that is EMPTY, so that Page::_write succeeds.            *)
C2_EraseBeforeWrite ==
  \A lba \in LogicalPages : \A r \in Outcomes(cur, WRITE, lba) :
    \A k \in 1..Len(AllEvents(r)) :
      AllEvents(r)[k].type = WRITE => AllEvents(r)[k].status = SUCCESS

(* C3: in every reachable state no erase counter exceeds BLOCK_ERASES.     *)
C3_EraseCountCapped ==
  \A b \in PhysicalBlocks : erase_count[b] <= BLOCK_ERASES

(* C4: in every reachable state the number of ERASE events issued to any   *)
(* one physical block is at most BLOCK_ERASES.                             *)
C4_EraseEventsCapped ==
  \A b \in PhysicalBlocks : erase_events[b] <= BLOCK_ERASES

(* C5: in every reachable state, a block whose erase counter equals        *)
(* BLOCK_ERASES receives no physical WRITE or ERASE from the next host     *)
(* event, and no WRITE translate returns a page inside it.                 *)
C5_CappedBlockRetired ==
  \A b \in PhysicalBlocks : erase_count[b] = BLOCK_ERASES =>
    \A type \in EventTypes : \A lba \in HostAddresses : \A r \in Outcomes(cur, type, lba) :
      \A k \in 1..Len(AllEvents(r)) :
        AllEvents(r)[k].type \in {WRITE, ERASE} => AllEvents(r)[k].block # b

(* outcome r left every manifest but that of block b as it was *)
OtherManifestsUnchanged(r, b) ==
  /\ DOMAIN r.s.log_to_pages = DOMAIN log_to_pages
  /\ \A key \in DOMAIN log_to_pages : key # b * BLOCK_SIZE => r.s.log_to_pages[key] = log_to_pages[key]

(* the event address is page `page` of physical block b *)
AddressIs(a, b, page) == block_of(a) = b /\ a.page = page /\ a.valid = "PAGE"

(* C6: first write.  In every reachable state, a WRITE translate for a     *)
(* legal L whose written bit is clear returns SUCCESS, sets the bit, puts  *)
(* in the event the data page (block L / BLOCK_SIZE + offset, page         *)
(* L mod BLOCK_SIZE), leaves the free pool, both offset tables, every      *)
(* manifest and every erase count as they were, and issues no physical     *)
(* event.                                                                  *)
C6_FirstWrite ==
  \A lba \in LogicalPages : ~Written(lba) =>
    \A r \in Outcomes(cur, WRITE, lba) :
      /\ r.status = SUCCESS
      /\ ~check_page_empty(r.s.logical_to_emptiness, lba)
      /\ AddressIs(r.address, DataBlockOf(logical_to_physical, lba), Offset(lba))
      /\ r.s.op_blocks = op_blocks
      /\ r.s.logical_to_physical = logical_to_physical
      /\ r.s.data_to_log = data_to_log
      /\ r.s.log_to_pages = log_to_pages
      /\ r.s.erase_count = erase_count
      /\ r.issued = <<>>

(* a first write to a logical block that has been moved off its identity   *)
(* data block, while some log block is mapped                              *)
C6_Witness ==
  \E lba \in LogicalPages :
    /\ ~Written(lba)
    /\ logical_to_physical[lba \div BLOCK_SIZE] # 0
    /\ \E d \in PhysicalBlocks : HasLog(data_to_log, d)
    /\ \E r \in Outcomes(cur, WRITE, lba) : r.status = SUCCESS /\ r.host.status = SUCCESS

(* C7: log append.  In every reachable state, a WRITE translate for a      *)
(* written L whose data block has a mapped log block with a manifest of    *)
(* k < BLOCK_SIZE entries returns SUCCESS with the event address (log      *)
(* block, page k), appends L mod BLOCK_SIZE to that manifest, issues no    *)
(* physical event and changes nothing else (bitmap, offset tables, pool,   *)
(* erase counts, other manifests).                                         *)
C7_LogAppend ==
  \A lba \in LogicalPages :
    LET d == DataBlockOf(logical_to_physical, lba)
        log == LogBlockOf(data_to_log, d)
        m == ManifestOf(log_to_pages, log)
    IN (Written(lba) /\ HasLog(data_to_log, d) /\ log * BLOCK_SIZE \in DOMAIN log_to_pages
        /\ Len(m) < BLOCK_SIZE) =>
         \A r \in Outcomes(cur, WRITE, lba) :
           /\ r.status = SUCCESS
           /\ AddressIs(r.address, log, Len(m))
           /\ ManifestOf(r.s.log_to_pages, log) = Append(m, Offset(lba))
           /\ OtherManifestsUnchanged(r, log)
           /\ r.issued = <<>>
           /\ r.s.logical_to_emptiness = logical_to_emptiness
           /\ r.s.logical_to_physical = logical_to_physical
           /\ r.s.data_to_log = data_to_log
           /\ r.s.op_blocks = op_blocks
           /\ r.s.erase_count = erase_count

(* an append of offset 1 behind an entry for offset 0, after some erase *)
C7_Witness ==
  \E lba \in LogicalPages :
    LET d == DataBlockOf(logical_to_physical, lba)
        log == LogBlockOf(data_to_log, d)
    IN /\ Written(lba) /\ HasLog(data_to_log, d)
       /\ ManifestOf(log_to_pages, log) = <<0>>
       /\ Offset(lba) = 1
       /\ \E b \in PhysicalBlocks : erase_count[b] > 0
       /\ \E r \in Outcomes(cur, WRITE, lba) :
            r.status = SUCCESS /\ ManifestOf(r.s.log_to_pages, log) = <<0, 1>>

(* C8: write to a full log block.  In every reachable state, a WRITE       *)
(* translate for a written L whose data block's log block has BLOCK_SIZE   *)
(* manifest entries, when it returns SUCCESS (the clean, after the remaps  *)
(* if any, succeeded), puts in the event page 0 of the log block mapped to *)
(* L's data block after the call, and that log block's manifest is exactly *)
(* [L mod BLOCK_SIZE].                                                     *)
C8_WriteToFullLog ==
  \A lba \in LogicalPages :
    LET d == DataBlockOf(logical_to_physical, lba)
        log == LogBlockOf(data_to_log, d)
    IN (Written(lba) /\ HasLog(data_to_log, d)
        /\ Len(ManifestOf(log_to_pages, log)) >= BLOCK_SIZE) =>
         \A r \in Outcomes(cur, WRITE, lba) : r.status = SUCCESS =>
           LET d1 == DataBlockOf(r.s.logical_to_physical, lba)
               log1 == LogBlockOf(r.s.data_to_log, d1)
           IN /\ HasLog(r.s.data_to_log, d1)
              /\ AddressIs(r.address, log1, 0)
              /\ log1 * BLOCK_SIZE \in DOMAIN r.s.log_to_pages
              /\ ManifestOf(r.s.log_to_pages, log1) = <<Offset(lba)>>

(* a write to a full log block whose data block is at the erase cap, so    *)
(* that the clean runs on a remapped pair, and succeeds                    *)
C8_Witness ==
  \E lba \in LogicalPages :
    LET d == DataBlockOf(logical_to_physical, lba)
        log == LogBlockOf(data_to_log, d)
    IN /\ Written(lba) /\ HasLog(data_to_log, d)
       /\ Len(ManifestOf(log_to_pages, log)) >= BLOCK_SIZE
       /\ erase_count[d] = BLOCK_ERASES
       /\ \E r \in Outcomes(cur, WRITE, lba) :
            /\ r.status = SUCCESS
            /\ DataBlockOf(r.s.logical_to_physical, lba) # d
            /\ \E k \in 1..Len(r.issued) : r.issued[k].type = ERASE

(* C9: log allocation.  In every reachable state, a WRITE translate for a  *)
(* written L whose data block D has no mapped log block, when it returns   *)
(* SUCCESS (a free block was obtained, from the pool or minted by          *)
(* shuffle_data_log in the same call), puts in the event page 0 of a block *)
(* that is no longer in the free pool, is mapped as the log block of L's   *)
(* data block, and has the manifest [L mod BLOCK_SIZE].                    *)
C9_LogAllocation ==
  \A lba \in LogicalPages :
    (Written(lba) /\ ~HasLog(data_to_log, DataBlockOf(logical_to_physical, lba))) =>
      \A r \in Outcomes(cur, WRITE, lba) : r.status = SUCCESS =>
        LET b == block_of(r.address)
            d1 == DataBlockOf(r.s.logical_to_physical, lba)
        IN /\ AddressIs(r.address, b, 0)
           /\ \A k \in 1..Len(r.s.op_blocks) : r.s.op_blocks[k] # b * BLOCK_SIZE
           /\ HasLog(r.s.data_to_log, d1)
           /\ LogBlockOf(r.s.data_to_log, d1) = b
           /\ ManifestOf(r.s.log_to_pages, b) = <<Offset(lba)>>

(* C10: read resolution.  In every reachable state, a READ translate for a *)
(* written L returns SUCCESS; if L's data block D has a mapped log block   *)
(* whose manifest contains L mod BLOCK_SIZE, the event address is (log     *)
(* block, k) with k the index of the last occurrence of that offset in the *)
(* manifest; otherwise it is page L mod BLOCK_SIZE of D.                   *)
C10_ReadResolution ==
  \A lba \in LogicalPages : Written(lba) =>
    LET d == DataBlockOf(logical_to_physical, lba)
        log == LogBlockOf(data_to_log, d)
        k == LastIndexOf(ManifestOf(log_to_pages, log), Offset(lba))
    IN \A r \in Outcomes(cur, READ, lba) :
         /\ r.status = SUCCESS
         /\ IF HasLog(data_to_log, d) /\ k >= 0
            THEN AddressIs(r.address, log, k)
            ELSE AddressIs(r.address, d, Offset(lba))

(* a read that resolves to the second of two entries for the same offset,  *)
(* and a read of the other offset of the same logical block, which has no  *)
(* entry and resolves to the data block                                    *)
C10_Witness ==
  \E lba \in LogicalPages :
    LET d == DataBlockOf(logical_to_physical, lba)
        log == LogBlockOf(data_to_log, d)
    IN /\ Written(lba) /\ HasLog(data_to_log, d)
       /\ ManifestOf(log_to_pages, log) = <<Offset(lba), Offset(lba)>>
       /\ \E r \in Outcomes(cur, READ, lba) : AddressIs(r.address, log, 1)
       /\ \E other \in LogicalPages :
            /\ other # lba /\ other \div BLOCK_SIZE = lba \div BLOCK_SIZE /\ Written(other)
            /\ \E r \in Outcomes(cur, READ, other) : AddressIs(r.address, d, Offset(other))

(* a state in which a block is at the erase cap and the next write to the  *)
(* logical block it holds goes through the clean path, erasing blocks      *)
C3_Witness ==
  \E lba \in LogicalPages :
    LET d == DataBlockOf(logical_to_physical, lba)
    IN /\ erase_count[d] = BLOCK_ERASES
       /\ Written(lba) /\ HasLog(data_to_log, d)
       /\ \E r \in Outcomes(cur, WRITE, lba) :
            /\ r.status = SUCCESS
            /\ \E k \in 1..Len(r.issued) : r.issued[k].type = ERASE
            /\ \E b \in PhysicalBlocks : r.s.erase_count[b] > erase_count[b]

(* C11: read idempotence.  In every reachable state, a READ of any host    *)
(* address changes none of the bitmap, the two offset tables, the          *)
(* manifests, the erase counts and the free pool and issues no physical    *)
(* event, and a second READ of the same address right after it returns the *)
(* same status and the same physical page.                                 *)
C11_ReadIdempotent ==
  \A lba \in HostAddresses : \A r1 \in Outcomes(cur, READ, lba) :
    /\ TablesUnchanged(r1)
    /\ r1.issued = <<>>
    /\ \A r2 \in Outcomes(After(r1), READ, lba) :
         r2.status = r1.status /\ r2.address = r1.address

(* two reads in a row that both resolve to the same page of a log block,   *)
(* in a state where an erase has happened                                  *)
C11_Witness ==
  \E lba \in LogicalPages :
    LET d == DataBlockOf(logical_to_physical, lba)
    IN /\ Written(lba) /\ HasLog(data_to_log, d)
       /\ \E b \in PhysicalBlocks : erase_count[b] > 0
       /\ \E r1 \in Outcomes(cur, READ, lba) :
            /\ r1.status = SUCCESS /\ r1.host.status = SUCCESS
            /\ block_of(r1.address) = LogBlockOf(data_to_log, d)
            /\ \E r2 \in Outcomes(After(r1), READ, lba) :
                 r2.status = SUCCESS /\ r2.address = r1.address

(* C12: read-before-write.  In every reachable state, a READ translate for *)
(* a legal L whose written bit is clear returns FAILURE and leaves the     *)
(* bitmap, the offset tables, the manifests, the erase counts and the free *)
(* pool unchanged.                                                         *)
C12_ReadBeforeWrite ==
  \A lba \in LogicalPages : ~Written(lba) =>
    \A r \in Outcomes(cur, READ, lba) : r.status = FAILURE /\ TablesUnchanged(r)

(* a refused read of a clear page whose neighbour in the same logical      *)
(* block is written and has a copy in a mapped log block                   *)
C12_Witness ==
  \E lba \in LogicalPages :
    LET d == DataBlockOf(logical_to_physical, lba)
    IN /\ ~Written(lba) /\ HasLog(data_to_log, d)
       /\ \E other \in LogicalPages :
            other \div BLOCK_SIZE = lba \div BLOCK_SIZE /\ Written(other)
       /\ \E r \in Outcomes(cur, READ, lba) : r.status = FAILURE /\ r.host = NoEvent

(* the out-of-range host addresses tried *)
OutOfRange == USABLE_SIZE..(RAW_SIZE + 1)

(* C13: out-of-range address.  In every reachable state, translate for any *)
(* event type with L >= USABLE_SIZE returns FAILURE, does not set the      *)
(* event address, and leaves the bitmap, the offset tables, the manifests, *)
(* the erase counts and the free pool unchanged.                           *)
C13_OutOfRange ==
  \A type \in EventTypes : \A lba \in OutOfRange : \A r \in Outcomes(cur, type, lba) :
    /\ r.status = FAILURE
    /\ r.address = NoAddress
    /\ TablesUnchanged(r)

(* an out-of-range WRITE refused in a state where the pool is empty and    *)
(* some block has been erased                                              *)
C13_Witness ==
  /\ op_blocks = <<>>
  /\ \E b \in PhysicalBlocks : erase_count[b] > 0
  /\ \E r \in Outcomes(cur, WRITE, USABLE_SIZE) :
       r.status = FAILURE /\ r.issued = <<>> /\ r.host = NoEvent

(* C14: unsupported host operation.  In every reachable state, translate   *)
(* for a host ERASE or MERGE with a legal L returns FAILURE, issues no     *)
(* physical event and leaves the bitmap, the offset tables, the manifests, *)
(* the erase counts and the free pool unchanged.                           *)
C14_UnsupportedOperation ==
  \A type \in {ERASE, MERGE} : \A lba \in LogicalPages : \A r \in Outcomes(cur, type, lba) :
    /\ r.status = FAILURE
    /\ r.issued = <<>>
    /\ TablesUnchanged(r)

(* a host ERASE of a written page with a mapped log block, refused *)
C14_Witness ==
  \E lba \in LogicalPages :
    /\ Written(lba) /\ HasLog(data_to_log, DataBlockOf(logical_to_physical, lba))
    /\ \E r \in Outcomes(cur, ERASE, lba) : r.status = FAILURE /\ r.host = NoEvent
    /\ \E r \in Outcomes(cur, MERGE, lba) : r.status = FAILURE /\ r.host = NoEvent

(* C15: pool exhaustion.  In every reachable state, a WRITE translate for  *)
(* a written L whose data block has no mapped log block, issued when the   *)
(* free pool is empty and shuffle_data_log returns false, returns FAILURE, *)
(* issues no physical event and leaves the bitmap, the offset tables, the  *)
(* manifests, the erase counts and the free pool unchanged.                *)
C15_PoolExhaustion ==
  \A lba \in LogicalPages :
    (/\ Written(lba)
     /\ ~HasLog(data_to_log, DataBlockOf(logical_to_physical, lba))
     /\ op_blocks = <<>>
     /\ \A g \in GarbageStrings : ~shuffle_data_log(cur, g).ok) =>
      \A r \in Outcomes(cur, WRITE, lba) :
        /\ r.status = FAILURE
        /\ r.issued = <<>>
        /\ TablesUnchanged(r)

(* such a refused write while another data block has a mapped log block    *)
(* that shuffle_data_log could not free                                    *)
C15_Witness ==
  \E lba \in LogicalPages :
    /\ Written(lba)
    /\ ~HasLog(data_to_log, DataBlockOf(logical_to_physical, lba))
    /\ op_blocks = <<>>
    /\ \E d \in PhysicalBlocks : HasLog(data_to_log, d)
    /\ ~shuffle_data_log(cur, <<>>).ok
    /\ \E r \in Outcomes(cur, WRITE, lba) : r.status = FAILURE /\ r.host = NoEvent

(* C16: device failure propagation.  In every reachable state, if some     *)
(* physical READ, WRITE or ERASE that translate issues during a host event *)
(* (through clean, remap_data_block, remap_log_block or shuffle_data_log)  *)
(* comes back from the device with a status other than SUCCESS, translate  *)
(* returns a status other than SUCCESS for that host event.                *)
C16_FailurePropagated ==
  \A type \in EventTypes : \A lba \in HostAddresses : \A r \in Outcomes(cur, type, lba) :
    (\E k \in 1..Len(r.issued) : r.issued[k].status # SUCCESS) => r.status # SUCCESS

LogicalBlocks == 0..(NUM_OF_LGC_B - 1)

(* index of the data block of logical block lb in table l2p *)
DataBlockOfBlock(l2p, lb) == lb + l2p[lb]

(* C17: in every reachable state the data-to-log relation is one-to-one:   *)
(* a data block has at most one mapped log block (the table holds one      *)
(* offset per block), and no physical block is the mapped log block of two *)
(* different data blocks.                                                  *)
C17_LogMappingOneToOne ==
  \A d1, d2 \in PhysicalBlocks :
    (d1 # d2 /\ HasLog(data_to_log, d1) /\ HasLog(data_to_log, d2)) =>
      LogBlockOf(data_to_log, d1) # LogBlockOf(data_to_log, d2)

(* two data blocks with a mapped log block each, one of the four blocks    *)
(* being at the erase cap                                                  *)
C17_Witness ==
  \E d1, d2 \in PhysicalBlocks :
    /\ d1 # d2 /\ HasLog(data_to_log, d1) /\ HasLog(data_to_log, d2)
    /\ LogBlockOf(data_to_log, d1) # LogBlockOf(data_to_log, d2)
    /\ \E b \in {d1, d2, LogBlockOf(data_to_log, d1), LogBlockOf(data_to_log, d2)} :
         erase_count[b] = BLOCK_ERASES

(* C18: in every reachable state (after every host event) every key of the *)
(* manifest table is the log block mapped by the data block of some        *)
(* logical block, and the number of manifests equals the number of logical *)
(* blocks whose data block has a mapped log block.                         *)
C18_ManifestKeysMapped ==
  /\ \A key \in DOMAIN log_to_pages :
       \E lb \in LogicalBlocks :
         LET d == DataBlockOfBlock(logical_to_physical, lb)
         IN HasLog(data_to_log, d) /\ LogBlockOf(data_to_log, d) * BLOCK_SIZE = key
  /\ Cardinality(DOMAIN log_to_pages) =
       Cardinality({lb \in LogicalBlocks :
                      HasLog(data_to_log, DataBlockOfBlock(logical_to_physical, lb))})

(* C19: in every reachable state the logical-to-data mapping is injective  *)
(* and in range: distinct logical blocks have distinct data blocks, each   *)
(* in [0, NUM_OF_PHY_B).                                                   *)
C19_DataMappingInjective ==
  /\ \A lb \in LogicalBlocks : DataBlockOfBlock(logical_to_physical, lb) \in PhysicalBlocks
  /\ \A lb1, lb2 \in LogicalBlocks :
       lb1 # lb2 => DataBlockOfBlock(logical_to_physical, lb1)
                      # DataBlockOfBlock(logical_to_physical, lb2)

(* two logical blocks moved off their identity data blocks, one of them by *)
(* the swap of remap_data_block: the block it left is at the erase cap     *)
C19_Witness ==
  \E lb1, lb2 \in LogicalBlocks :
    /\ lb1 # lb2
    /\ logical_to_physical[lb1] # 0 /\ logical_to_physical[lb2] # 0
    /\ DataBlockOfBlock(logical_to_physical, lb2) = lb1
    /\ erase_count[lb1] = BLOCK_ERASES

(* C20: in every reachable state (after every host event) the free pool    *)
(* holds no block twice, holds no block whose erase count equals           *)
(* BLOCK_ERASES, and holds only blocks of the initial over-provisioned     *)
(* range [USABLE_SIZE, RAW_SIZE): a block pushed by shuffle_data_log is    *)
(* popped again before the host event ends.                                *)
C20_PoolWellFormed ==
  /\ \A i, j \in 1..Len(op_blocks) : i # j => op_blocks[i] # op_blocks[j]
  /\ \A k \in 1..Len(op_blocks) :
       /\ op_blocks[k] \in USABLE_SIZE..(RAW_SIZE - 1)
       /\ op_blocks[k] % BLOCK_SIZE = 0
       /\ erase_count[op_blocks[k] \div BLOCK_SIZE] # BLOCK_ERASES

(* a pool that has handed out a block and still holds one, while some      *)
(* block in service has reached the erase cap                              *)
C20_Witness ==
  /\ op_blocks # <<>>
  /\ Len(op_blocks) < NUM_OF_OP_B
  /\ \E b \in PhysicalBlocks : erase_count[b] = BLOCK_ERASES

(* nothing has reached the device yet *)
DeviceUntouched ==
  /\ \A p \in DOMAIN page_state : page_state[p] = EMPTY
  /\ \A b \in PhysicalBlocks : erase_events[b] = 0

(* C21: the written bitmap.  In every reachable state, while nothing has   *)
(* reached the device no bit is set, and for every host event and every    *)
(* logical page L the bit of L is set after the event if and only if it    *)
(* was set before or the event is a WRITE of L for which translate         *)
(* returned SUCCESS: a set bit is never cleared, and setting the bit of L  *)
(* changes the bit of no other page.                                       *)
C21_WrittenBitmap ==
  /\ DeviceUntouched => \A l \in LogicalPages : ~Written(l)
  /\ \A type \in EventTypes : \A lba \in HostAddresses : \A r \in Outcomes(cur, type, lba) :
       \A l \in LogicalPages :
         ~check_page_empty(r.s.logical_to_emptiness, l)
           <=> (Written(l) \/ (type = WRITE /\ lba = l /\ r.status = SUCCESS))

(* a first write that sets a bit in a bitmap word that already has a bit   *)
(* set, and a refused write to a written page, both after some erase       *)
C21_Witness ==
  /\ \E b \in PhysicalBlocks : erase_count[b] > 0
  /\ \E lba, other \in LogicalPages :
       /\ lba # other /\ lba \div SizeofUInt = other \div SizeofUInt
       /\ ~Written(lba) /\ Written(other)
       /\ \E r \in Outcomes(cur, WRITE, lba) :
            r.status = SUCCESS /\ ~check_page_empty(r.s.logical_to_emptiness, lba)
  /\ \E lba \in LogicalPages :
       Written(lba) /\ \E r \in Outcomes(cur, WRITE, lba) : r.status = FAILURE

(* the calls of fn recorded during the host event with outcome r *)
CallsOf(r, fn) == {r.s.calls[k] : k \in {j \in DOMAIN r.s.calls : r.s.calls[j].fn = fn}}

(* the physical page clean must take offset i from, by the manifest m of   *)
(* the log block: the last occurrence of i in m, else page i of the data   *)
(* block                                                                   *)
LatestCopy(m, i, data_pba, log_pba) ==
  IF LastIndexOf(m, i) >= 0 THEN log_pba + LastIndexOf(m, i) ELSE data_pba + i

(* C22: durability across cleaning.  For every call of clean that returns  *)
(* true: each written page offset i of the logical block is VALID in page  *)
(* i of the data block D and holds the most recent value written to that   *)
(* logical page (the one at the last manifest occurrence of i in the log   *)
(* block, else the one in D); every other page of D, every page of the log *)
(* block and every page of the scratch block is EMPTY.                     *)
C22_CleanDurability ==
  \A lba \in LogicalPages : \A r \in Outcomes(cur, WRITE, lba) :
    \A c \in CallsOf(r, "clean") : c.ok =>
      /\ \A i \in 0..(BLOCK_SIZE - 1) :
           IF ~check_page_empty(c.pre.logical_to_emptiness, c.logical_block + i)
           THEN /\ c.post.page_state[c.data_pba + i] = VALID
                /\ c.post.page_data[c.data_pba + i] =
                     c.pre.page_data[LatestCopy(ManifestOf(c.pre.log_to_pages,
                                                           c.log_pba \div BLOCK_SIZE),
                                                i, c.data_pba, c.log_pba)]
                /\ c.post.page_data[c.data_pba + i] =
                     [lba |-> c.logical_block + i, latest |-> TRUE]
           ELSE c.post.page_state[c.data_pba + i] = EMPTY
      /\ \A i \in 0..(BLOCK_SIZE - 1) :
           /\ c.post.page_state[c.log_pba + i] = EMPTY
           /\ c.post.page_state[c.other + i] = EMPTY

(* the logical pages still waiting for a READ from block b just before     *)
(* event k of the list ev, given the pending sets bm the host event        *)
(* started with: those whose most recent physical WRITE went to b and that *)
(* no READ from b has carried since                                        *)
PendingBefore(bm, ev, k, b) ==
  {l \in bm[b] \cup {ev[j].lba : j \in 1..(k - 1)} :
     LET W == {j \in 1..(k - 1) : ev[j].type = WRITE /\ ev[j].lba = l}
         from == IF W = {} THEN 0 ELSE CHOOSE j \in W : \A i \in W : i <= j
     IN /\ IF W = {} THEN l \in bm[b] ELSE ev[from].block = b
        /\ ~\E j \in (from + 1)..(k - 1) :
              ev[j].type = READ /\ ev[j].lba = l /\ ev[j].block = b}

(* C23: read before erase.  Whenever a host event makes the FTL issue an   *)
(* ERASE to a physical block B, no logical page whose most recent physical *)
(* write landed in B is still waiting for a READ from B, and the device    *)
(* never refuses an erase for pending reads (reads_passed stays true).     *)
C23_ReadBeforeErase ==
  /\ reads_passed
  /\ \A type \in EventTypes : \A lba \in HostAddresses : \A r \in Outcomes(cur, type, lba) :
       /\ r.s.reads_passed
       /\ \A k \in 1..Len(r.issued) : r.issued[k].type = ERASE =>
            PendingBefore(block_map, r.issued, k, r.issued[k].block) = {}

(* a host write runs clean on a pair whose blocks hold pages not read      *)
(* since they were written, and another runs shuffle_data_log              *)
C23_Witness ==
  /\ \E lba \in LogicalPages : \E r \in Outcomes(cur, WRITE, lba) :
       \E c \in CallsOf(r, "clean") :
         /\ c.ok
         /\ c.pre.block_map[c.data_pba \div BLOCK_SIZE] # {}
         /\ c.pre.block_map[c.log_pba \div BLOCK_SIZE] # {}
         /\ \E k \in 1..Len(r.issued) : r.issued[k].type = ERASE /\ r.issued[k].status = SUCCESS
  /\ \E b \in PhysicalBlocks : erase_events[b] > erase_count[b]

(* what the host event with outcome r changed *)
ChangedBits(r) ==
  {l \in LogicalPages :
     check_page_empty(r.s.logical_to_emptiness, l) # check_page_empty(logical_to_emptiness, l)}

ChangedDataOffsets(r) ==
  {i \in DOMAIN logical_to_physical : r.s.logical_to_physical[i] # logical_to_physical[i]}

ChangedLogOffsets(r) ==
  {b \in DOMAIN data_to_log : r.s.data_to_log[b] # data_to_log[b]}

ChangedCounters(r) == {b \in PhysicalBlocks : r.s.erase_count[b] # erase_count[b]}

ErasedBlocks(r) ==
  {r.issued[k].block : k \in {j \in 1..Len(r.issued) : r.issued[j].type = ERASE}}

C25_NeverOwnLog ==
  \A lba \in LogicalPages :
    (Written(lba) /\ ~HasLog(data_to_log, DataBlockOf(logical_to_physical, lba))) =>
      \A r \in Outcomes(cur, WRITE, lba) : r.status = SUCCESS =>
        /\ block_of(r.address) # DataBlockOf(logical_to_physical, lba)
        /\ HasLog(r.s.data_to_log, DataBlockOf(logical_to_physical, lba))

(* the program states a list of host WRITEs leads to from the states S *)
RECURSIVE AfterWrites(_, _)
AfterWrites(S, lbas) ==
  IF lbas = <<>> THEN S
  ELSE AfterWrites({After(r) : r \in UNION {Outcomes(s, WRITE, Head(lbas)) : s \in S}},
                   Tail(lbas))

(* WRITE 0, 1, ..., BLOCK_SIZE - 1 *)
FillBlockZero == [k \in 1..BLOCK_SIZE |-> k - 1]

(* C26 as stated: from a freshly initialised FTL, after WRITE 0, 1, ...,   *)
(* BLOCK_SIZE - 1 a log block is mapped to data block 0 with manifest      *)
(* [0, 1, ..., BLOCK_SIZE - 1], and a following WRITE 0 triggers clean and *)
(* leaves manifest [0].                                                    *)
C26_Original ==
  Init =>
    \A s \in AfterWrites({cur}, FillBlockZero) :
      /\ HasLog(s.data_to_log, 0)
      /\ ManifestOf(s.log_to_pages, LogBlockOf(s.data_to_log, 0)) = FillBlockZero
      /\ \A r \in Outcomes(s, WRITE, 0) :
           /\ \E c \in CallsOf(r, "clean") : c.ok
           /\ ManifestOf(r.s.log_to_pages, LogBlockOf(r.s.data_to_log, 0)) = <<0>>

(* C26: scenario 'fill, rewrite, clean'.  From a freshly initialised FTL,  *)
(* WRITE 0, 1, ..., BLOCK_SIZE - 1 are first writes: they fill data block  *)
(* 0 and map no log block.  A following WRITE 0 takes a log block from the *)
(* pool, maps it to data block 0 with manifest [0] and returns its page 0  *)
(* without cleaning.  BLOCK_SIZE - 1 further WRITE 0 fill the log block,   *)
(* and the WRITE 0 after them triggers clean and leaves manifest [0].      *)
C26_FillRewriteClean ==
  Init =>
    /\ \A s \in AfterWrites({cur}, FillBlockZero) :
         /\ ~HasLog(s.data_to_log, 0)
         /\ DOMAIN s.log_to_pages = {}
         /\ \A i \in 0..(BLOCK_SIZE - 1) : s.page_state[i] = VALID
         /\ \A r \in Outcomes(s, WRITE, 0) :
              /\ r.status = SUCCESS
              /\ r.issued = <<>> /\ CallsOf(r, "clean") = {}
              /\ HasLog(r.s.data_to_log, 0)
              /\ ManifestOf(r.s.log_to_pages, LogBlockOf(r.s.data_to_log, 0)) = <<0>>
              /\ AddressIs(r.address, LogBlockOf(r.s.data_to_log, 0), 0)
    /\ \A s \in AfterWrites({cur}, FillBlockZero \o [k \in 1..BLOCK_SIZE |-> 0]) :
         /\ ManifestOf(s.log_to_pages, LogBlockOf(s.data_to_log, 0)) = [k \in 1..BLOCK_SIZE |-> 0]
         /\ \A r \in Outcomes(s, WRITE, 0) :
              /\ r.status = SUCCESS
              /\ \E c \in CallsOf(r, "clean") :
                   c.ok /\ c.logical_block = 0 /\ c.data_pba = 0
                        /\ c.log_pba = LogBlockOf(s.data_to_log, 0) * BLOCK_SIZE
              /\ ManifestOf(r.s.log_to_pages, LogBlockOf(r.s.data_to_log, 0)) = <<0>>
              /\ AddressIs(r.address, LogBlockOf(r.s.data_to_log, 0), 0)

(* the state the whole scenario ends in: only logical block 0 written, its *)
(* pair cleaned once, the log block holding the last write                 *)
C26_Witness ==
  /\ \A l \in LogicalPages : Written(l) <=> l < BLOCK_SIZE
  /\ HasLog(data_to_log, 0)
  /\ ManifestOf(log_to_pages, LogBlockOf(data_to_log, 0)) = <<0>>
  /\ erase_count[0] = 1 /\ erase_count[LogBlockOf(data_to_log, 0)] = 1
  /\ \A b \in PhysicalBlocks : erase_events[b] = erase_count[b]
  /\ page_state[LogBlockOf(data_to_log, 0) * BLOCK_SIZE] = VALID

(* the physical events issued during the recorded call c, in order *)
EventsOf(c) == SubSeq(c.post.issued, Len(c.pre.issued) + 1, Len(c.post.issued))

(* ev[from..to] is a list of READ/WRITE pairs, each READ from block src    *)
(* or src2 followed by a WRITE of the same logical page to block des       *)
CopyPairs(ev, from, to, src, src2, des) ==
  /\ (to - from + 1) % 2 = 0
  /\ \A k \in from..to :
       IF (k - from) % 2 = 0
       THEN ev[k].type = READ /\ ev[k].block \in {src, src2}
       ELSE /\ ev[k].type = WRITE /\ ev[k].block = des
            /\ ev[k].lba = ev[k - 1].lba /\ ev[k].page = ev[k].lba % BLOCK_SIZE

(* C27: ordering inside clean.  Every call of clean that returns true      *)
(* issues, in this order: READ/WRITE pairs copying into the scratch block, *)
(* ERASE(D), ERASE(Lambda), READ(scratch)/WRITE(D) pairs copying back, and *)
(* ERASE(scratch) last; exactly three ERASE events; and afterwards exactly *)
(* the erase counts of D, Lambda and the scratch block have each increased *)
(* by 1 while every other counter is unchanged.                            *)
C27_CleanOrdering ==
  \A lba \in LogicalPages : \A r \in Outcomes(cur, WRITE, lba) :
    \A c \in CallsOf(r, "clean") : c.ok =>
      LET ev == EventsOf(c)
          D == c.data_pba \div BLOCK_SIZE
          L == c.log_pba \div BLOCK_SIZE
          S == c.other \div BLOCK_SIZE
          n == Cardinality({i \in 0..(BLOCK_SIZE - 1) :
                 ~check_page_empty(c.pre.logical_to_emptiness, c.logical_block + i)})
      IN /\ Len(ev) = 4 * n + 3
         /\ Cardinality({D, L, S}) = 3
         /\ CopyPairs(ev, 1, 2 * n, D, L, S)
         /\ ev[2 * n + 1].type = ERASE /\ ev[2 * n + 1].block = D
         /\ ev[2 * n + 2].type = ERASE /\ ev[2 * n + 2].block = L
         /\ CopyPairs(ev, 2 * n + 3, 4 * n + 2, S, S, D)
         /\ ev[4 * n + 3].type = ERASE /\ ev[4 * n + 3].block = S
         /\ \A b \in PhysicalBlocks :
              c.post.erase_count[b] =
                c.pre.erase_count[b] + (IF b \in {D, L, S} THEN 1 ELSE 0)

(* a clean of a logical block with every page written, pages taken from    *)
(* the data block and from the log block                                   *)
C27_Witness ==
  \E lba \in LogicalPages : \E r \in Outcomes(cur, WRITE, lba) :
    \E c \in CallsOf(r, "clean") :
      /\ c.ok
      /\ \A i \in 0..(BLOCK_SIZE - 1) :
           ~check_page_empty(c.pre.logical_to_emptiness, c.logical_block + i)
      /\ \E k \in 1..Len(EventsOf(c)) :
           EventsOf(c)[k].type = READ /\ EventsOf(c)[k].block = c.data_pba \div BLOCK_SIZE
      /\ \E k \in 1..Len(EventsOf(c)) :
           EventsOf(c)[k].type = READ /\ EventsOf(c)[k].block = c.log_pba \div BLOCK_SIZE
      /\ \E b \in PhysicalBlocks : c.pre.erase_count[b] > 0

(* the data blocks clean may take as scratch in program state s: those of  *)
(* logical blocks with no written page, under the erase cap                *)
ScratchCandidates(s) ==
  {DataBlockOfBlock(s.logical_to_physical, lb) : lb \in
     {x \in LogicalBlocks :
        /\ \A i \in 0..(BLOCK_SIZE - 1) :
             check_page_empty(s.logical_to_emptiness, x * BLOCK_SIZE + i)
        /\ s.erase_count[DataBlockOfBlock(s.logical_to_physical, x)] < BLOCK_ERASES}}

(* C28: scratch acquisition.  In every call of clean, the scratch block is *)
(* the data block of a logical block none of whose pages is written, has   *)
(* erase_count < BLOCK_ERASES and has the least erase_count among all such *)
(* blocks; if there is no such block clean returns false, having issued no *)
(* physical event and changed no table or counter.                         *)
C28_ScratchAcquisition ==
  \A lba \in LogicalPages : \A r \in Outcomes(cur, WRITE, lba) :
    \A c \in CallsOf(r, "clean") :
      IF ScratchCandidates(c.pre) = {}
      THEN ~c.ok /\ c.post = c.pre
      ELSE /\ c.ok
           /\ c.other % BLOCK_SIZE = 0
           /\ c.other \div BLOCK_SIZE \in ScratchCandidates(c.pre)
           /\ \A b \in ScratchCandidates(c.pre) :
                c.pre.erase_count[c.other \div BLOCK_SIZE] <= c.pre.erase_count[b]

(* a clean picks the less erased of two candidate blocks with different    *)
(* erase counts                                                            *)
C28_Witness ==
  \E lba \in LogicalPages : \E r \in Outcomes(cur, WRITE, lba) :
    \E c \in CallsOf(r, "clean") :
      /\ c.ok
      /\ \E b \in ScratchCandidates(c.pre) :
           c.pre.erase_count[b] > c.pre.erase_count[c.other \div BLOCK_SIZE]

(* ---------------------------------------------------------------------- *)
(* next_unmapped_log_block on arbitrary pools                              *)
(* ---------------------------------------------------------------------- *)
MaxPool == 3

(* the pools of at most MaxPool different blocks, as stacks of addresses *)
Pools ==
  UNION {{p \in [1..n -> {b * BLOCK_SIZE : b \in 0..(NUM_OF_PHY_B - 1)}] :
            \A i, j \in 1..n : i # j => p[i] # p[j]} : n \in 1..MaxPool}

(* a device with nothing written, any erase counts and any non-empty pool *)
InitPool ==
  /\ geometry \in Configurations
  /\ logical_to_emptiness = [w \in 0..(emp_len - 1) |-> 0]
  /\ erase_count \in [0..(NUM_OF_PHY_B - 1) -> 0..BLOCK_ERASES]
  /\ logical_to_physical = [b \in 0..(NUM_OF_LGC_B - 1) |-> 0]
  /\ data_to_log = [b \in 0..(NUM_OF_PHY_B - 1) |-> 0]
  /\ log_to_pages = <<>>
  /\ op_blocks \in Pools
  /\ page_state = [p \in 0..(RAW_SIZE - 1) |-> EMPTY]
  /\ erases_remaining = [b \in 0..(NUM_OF_PHY_B - 1) |-> BLOCK_ERASES - erase_count[b]]
  /\ ref_map = <<>>
  /\ block_map = [b \in 0..(NUM_OF_PHY_B - 1) |-> {}]
  /\ reads_passed = TRUE
  /\ page_data = [p \in 0..(RAW_SIZE - 1) |-> NoData]
  /\ erase_events = [b \in 0..(NUM_OF_PHY_B - 1) |-> erase_count[b]]
  /\ ub_deref = FALSE

(* one call of next_unmapped_log_block on a non-empty pool *)
PopFromPool ==
  /\ op_blocks # <<>>
  /\ Commit([s |-> next_unmapped_log_block(cur, <<>>).s])

NextPool == PopFromPool

SpecPool == InitPool /\ [][NextPool]_vars

(* C29: next_unmapped_log_block on any non-empty pool.  When it returns    *)
(* true, the returned block is the topmost pool block with erase_count <   *)
(* BLOCK_ERASES, it and every block above it have been removed, and every  *)
(* block below it is still in the pool; it returns false only when every   *)
(* pool block was at the cap, and then it leaves the pool empty.           *)
C29_PopContract ==
  op_blocks # <<>> =>
    LET n == next_unmapped_log_block(cur, <<>>)
    IN IF n.ok
       THEN \E k \in 1..Len(op_blocks) :
              /\ n.log_address = op_blocks[k]
              /\ erase_count[op_blocks[k] \div BLOCK_SIZE] < BLOCK_ERASES
              /\ \A j \in (k + 1)..Len(op_blocks) :
                   erase_count[op_blocks[j] \div BLOCK_SIZE] >= BLOCK_ERASES
              /\ n.s.op_blocks = SubSeq(op_blocks, 1, k - 1)
       ELSE /\ \A k \in 1..Len(op_blocks) :
                 erase_count[op_blocks[k] \div BLOCK_SIZE] >= BLOCK_ERASES
            /\ n.s.op_blocks = <<>>

(* the page offsets copied from block src to the same page of block des in *)
(* the event list ev: a READ of (src, i) directly followed by a WRITE of   *)
(* the same logical page to (des, i)                                       *)
CopiedOffsets(ev, src, des) ==
  {ev[k].page : k \in {j \in 1..(Len(ev) - 1) :
     /\ ev[j].type = READ /\ ev[j].block = src
     /\ ev[j + 1].type = WRITE /\ ev[j + 1].block = des
     /\ ev[j + 1].lba = ev[j].lba /\ ev[j + 1].page = ev[j].page}}

(* C30: remap_data_block(logical_block, D_old, Lambda).  On success it     *)
(* returns D_new # Lambda with erase_count[D_new] < BLOCK_ERASES;          *)
(* logical_block maps to D_new, D_old has no log block, D_new maps to      *)
(* Lambda and Lambda's manifest is unchanged; exactly the written pages of *)
(* logical_block with no entry in Lambda's manifest have been copied from  *)
(* (D_old, i) to (D_new, i); and if D_new was the data block of an empty   *)
(* logical block L', L' now maps to D_old.  On failure it returns Lambda   *)
(* and no table has changed.                                               *)
C30_RemapDataBlock ==
  \A lba \in LogicalPages : \A r \in Outcomes(cur, WRITE, lba) :
    \A c \in CallsOf(r, "remap_data_block") :
      LET old == c.data_pba \div BLOCK_SIZE
          log == c.log_pba \div BLOCK_SIZE
          new == c.other \div BLOCK_SIZE
          lb == c.logical_block \div BLOCK_SIZE
          m == ManifestOf(c.pre.log_to_pages, log)
      IN IF c.ok
         THEN /\ new # log
              /\ c.post.erase_count[new] < BLOCK_ERASES
              /\ DataBlockOfBlock(c.post.logical_to_physical, lb) = new
              /\ ~HasLog(c.post.data_to_log, old)
              /\ HasLog(c.post.data_to_log, new)
              /\ LogBlockOf(c.post.data_to_log, new) = log
              /\ ManifestOf(c.post.log_to_pages, log) = m
              /\ CopiedOffsets(EventsOf(c), old, new) =
                   {i \in 0..(BLOCK_SIZE - 1) :
                      /\ ~check_page_empty(c.pre.logical_to_emptiness, c.logical_block + i)
                      /\ LastIndexOf(m, i) < 0}
              /\ \A x \in LogicalBlocks :
                   (/\ x # lb
                    /\ DataBlockOfBlock(c.pre.logical_to_physical, x) = new
                    /\ \A i \in 0..(BLOCK_SIZE - 1) :
                         check_page_empty(c.pre.logical_to_emptiness, x * BLOCK_SIZE + i))
                   => DataBlockOfBlock(c.post.logical_to_physical, x) = old
         ELSE /\ c.other = c.log_pba
              /\ c.post.logical_to_emptiness = c.pre.logical_to_emptiness
              /\ c.post.logical_to_physical = c.pre.logical_to_physical
              /\ c.post.data_to_log = c.pre.data_to_log
              /\ c.post.log_to_pages = c.pre.log_to_pages

(* a successful remap onto the data block of an empty logical block, with  *)
(* a page to copy and the log block's manifest holding the other page      *)
C30_Witness ==
  \E lba \in LogicalPages : \E r \in Outcomes(cur, WRITE, lba) :
    \E c \in CallsOf(r, "remap_data_block") :
      /\ c.ok /\ c.aux # RAW_SIZE
      /\ CopiedOffsets(EventsOf(c), c.data_pba \div BLOCK_SIZE, c.other \div BLOCK_SIZE) # {}
      /\ DataBlockOfBlock(c.post.logical_to_physical, c.aux \div BLOCK_SIZE)
           = c.data_pba \div BLOCK_SIZE
      /\ c.pre.erase_count[c.data_pba \div BLOCK_SIZE] = BLOCK_ERASES

(* the blocks to which the list ev holds an ERASE *)
ErasedIn(ev) == {ev[k].block : k \in {j \in 1..Len(ev) : ev[j].type = ERASE}}

(* C31 as stated: after a WRITE translate in which remap_log_block         *)
(* replaced log block Lambda_old by Lambda_new, the clean invoked by that  *)
(* same translate call issues an ERASE to Lambda_old before translate      *)
(* returns.                                                                *)
C31_Original ==
  \A lba \in LogicalPages : \A r \in Outcomes(cur, WRITE, lba) :
    \A c \in CallsOf(r, "remap_log_block") : c.ok =>
      c.log_pba \div BLOCK_SIZE \in
        ErasedIn(SubSeq(r.issued, Len(c.post.issued) + 1, Len(r.issued)))

(* C31: the log block that remap_log_block leaves is not erased.  After a  *)
(* WRITE translate in which remap_log_block replaced Lambda_old (at the    *)
(* erase cap) by Lambda_new, the clean that the same translate call        *)
(* invokes runs on the pair (D, Lambda_new); no ERASE is issued to         *)
(* Lambda_old during the event, its pages and its erase count are what     *)
(* they were, and it is neither a mapped log block nor in the free pool.   *)
C31_OldLogNotErased ==
  \A lba \in LogicalPages : \A r \in Outcomes(cur, WRITE, lba) :
    \A i \in DOMAIN r.s.calls :
      (r.s.calls[i].fn = "remap_log_block" /\ r.s.calls[i].ok) =>
        LET c == r.s.calls[i]
            old == c.log_pba \div BLOCK_SIZE
        IN /\ c.pre.erase_count[old] = BLOCK_ERASES
           /\ old \notin ErasedIn(r.issued)
           /\ r.s.erase_count[old] = c.pre.erase_count[old]
           /\ \A p \in 0..(BLOCK_SIZE - 1) :
                r.s.page_state[c.log_pba + p] = c.pre.page_state[c.log_pba + p]
           /\ \A d \in PhysicalBlocks :
                HasLog(r.s.data_to_log, d) => LogBlockOf(r.s.data_to_log, d) # old
           /\ \A k \in 1..Len(r.s.op_blocks) : r.s.op_blocks[k] # c.log_pba
           /\ \A j \in (i + 1)..Len(r.s.calls) : r.s.calls[j].fn = "clean" =>
                /\ r.s.calls[j].data_pba = c.data_pba
                /\ r.s.calls[j].log_pba = c.other
                /\ r.s.calls[j].ok => c.other \div BLOCK_SIZE \in ErasedIn(r.issued)

(* a write whose remap_log_block succeeds and whose clean then succeeds,   *)
(* leaving valid pages in the block that was left                          *)
C31_Witness ==
  \E lba \in LogicalPages : \E r \in Outcomes(cur, WRITE, lba) :
    /\ r.status = SUCCESS
    /\ \E c \in CallsOf(r, "remap_log_block") :
         /\ c.ok
         /\ \E p \in 0..(BLOCK_SIZE - 1) : r.s.page_state[c.log_pba + p] = VALID
    /\ \E c \in CallsOf(r, "clean") : c.ok

(* the elements of a set of numbers in ascending order *)
Ascending(S) ==
  CHOOSE q \in [1..Cardinality(S) -> S] : \A a, b \in 1..Cardinality(S) : a < b => q[a] < q[b]

(* C32: remap_log_block(logical_block, D, Lambda_old).  On success D maps  *)
(* to Lambda_new, a block with erase_count < BLOCK_ERASES that is not in   *)
(* the pool any more; Lambda_old's manifest is removed; Lambda_new's       *)
(* manifest lists in ascending order, each once, the offsets of the        *)
(* written pages present in Lambda_old's manifest, and page j of           *)
(* Lambda_new holds the copy read from the last occurrence of the j-th     *)
(* such offset in Lambda_old.  On failure it returns D and no table has    *)
(* changed.                                                                *)
C32_RemapLogBlock ==
  \A lba \in LogicalPages : \A r \in Outcomes(cur, WRITE, lba) :
    \A c \in CallsOf(r, "remap_log_block") :
      LET D == c.data_pba \div BLOCK_SIZE
          old == c.log_pba \div BLOCK_SIZE
          new == c.other \div BLOCK_SIZE
          m == ManifestOf(c.pre.log_to_pages, old)
          kept == Ascending({i \in 0..(BLOCK_SIZE - 1) :
                    /\ ~check_page_empty(c.pre.logical_to_emptiness, c.logical_block + i)
                    /\ LastIndexOf(m, i) >= 0})
      IN IF c.ok
         THEN /\ new # old /\ new # D
              /\ c.post.erase_count[new] < BLOCK_ERASES
              /\ \A k \in 1..Len(c.post.op_blocks) : c.post.op_blocks[k] # c.other
              /\ HasLog(c.post.data_to_log, D)
              /\ LogBlockOf(c.post.data_to_log, D) = new
              /\ c.log_pba \notin DOMAIN c.post.log_to_pages
              /\ ManifestOf(c.post.log_to_pages, new) = kept
              /\ \A j \in 1..Len(kept) :
                   /\ c.post.page_state[c.other + j - 1] = VALID
                   /\ c.post.page_data[c.other + j - 1] =
                        c.pre.page_data[c.log_pba + LastIndexOf(m, kept[j])]
                   /\ c.post.page_data[c.other + j - 1] =
                        [lba |-> c.logical_block + kept[j], latest |-> TRUE]
         ELSE /\ c.other = c.data_pba
              /\ c.post.logical_to_emptiness = c.pre.logical_to_emptiness
              /\ c.post.logical_to_physical = c.pre.logical_to_physical
              /\ c.post.data_to_log = c.pre.data_to_log
              /\ c.post.log_to_pages = c.pre.log_to_pages

(* a successful remap of a log block whose manifest is not in ascending    *)
(* order                                                                   *)
C32_Witness ==
  \E lba \in LogicalPages : \E r \in Outcomes(cur, WRITE, lba) :
    \E c \in CallsOf(r, "remap_log_block") :
      /\ c.ok
      /\ \E a, b \in 1..BLOCK_SIZE :
           /\ a < b
           /\ ManifestOf(c.pre.log_to_pages, c.log_pba \div BLOCK_SIZE)[a]
                > ManifestOf(c.pre.log_to_pages, c.log_pba \div BLOCK_SIZE)[b]

(* a READ of the written logical page l in program state s succeeds at a   *)
(* page that holds the latest value written to l                           *)
ReadsLatest(s, l) ==
  \A q \in Outcomes(s, READ, l) :
    /\ q.status = SUCCESS
    /\ s.page_data[page_of(q.address)] = [lba |-> l, latest |-> TRUE]

(* the data blocks with a mapped log block, both under the erase cap *)
ShufflePairs(s) ==
  {d \in PhysicalBlocks :
     /\ HasLog(s.data_to_log, d)
     /\ s.erase_count[d] < BLOCK_ERASES
     /\ s.erase_count[LogBlockOf(s.data_to_log, d)] < BLOCK_ERASES}

(* the logical blocks whose data block has no log block *)
LoglessBlocks(s) ==
  {x \in LogicalBlocks : ~HasLog(s.data_to_log, DataBlockOfBlock(s.logical_to_physical, x))}

CombinedCount(s, d) == s.erase_count[d] + s.erase_count[LogBlockOf(s.data_to_log, d)]

(* C33: shuffle_data_log on success.  It selected the data/log pair with   *)
(* the greatest combined erase count among the pairs with both blocks      *)
(* under the cap, and the log-less data block with the least erase count,  *)
(* which is < BLOCK_ERASES - 1.  Afterwards the pair's data block keeps    *)
(* its logical block and has no log block; the pair's former log block is  *)
(* the data block of the logical block that owned the least-erased block   *)
(* and holds its written pages at their own offsets; the least-erased      *)
(* block has been erased and is the only block added to the free pool; and *)
(* every written logical page still reads back its latest value.           *)
C33_ShuffleDataLog ==
  \A lba \in LogicalPages : \A r \in Outcomes(cur, WRITE, lba) :
    \A c \in CallsOf(r, "shuffle_data_log") : c.ok =>
      LET D == c.data_pba \div BLOCK_SIZE
          L == c.log_pba \div BLOCK_SIZE
          M == c.other \div BLOCK_SIZE
          owner == c.logical_block \div BLOCK_SIZE
      IN /\ D \in ShufflePairs(c.pre) /\ LogBlockOf(c.pre.data_to_log, D) = L
         /\ \A d \in ShufflePairs(c.pre) : CombinedCount(c.pre, d) <= CombinedCount(c.pre, D)
         /\ c.pre.erase_count[M] < BLOCK_ERASES - 1
         /\ \E x \in LoglessBlocks(c.pre) :
              /\ DataBlockOfBlock(c.pre.logical_to_physical, x) = M
              /\ DataBlockOfBlock(c.post.logical_to_physical, x) = L
              /\ \A i \in 0..(BLOCK_SIZE - 1) :
                   ~check_page_empty(c.pre.logical_to_emptiness, x * BLOCK_SIZE + i) =>
                     /\ c.post.page_state[c.log_pba + i] = VALID
                     /\ c.post.page_data[c.log_pba + i] =
                          c.pre.page_data[c.other + i]
         /\ \A x \in LoglessBlocks(c.pre) :
              c.pre.erase_count[M]
                <= c.pre.erase_count[DataBlockOfBlock(c.pre.logical_to_physical, x)]
         /\ DataBlockOfBlock(c.pre.logical_to_physical, owner) = D
         /\ DataBlockOfBlock(c.post.logical_to_physical, owner) = D
         /\ ~HasLog(c.post.data_to_log, D)
         /\ \A p \in 0..(BLOCK_SIZE - 1) : c.post.page_state[c.other + p] = EMPTY
         /\ c.post.op_blocks = Append(c.pre.op_blocks, c.other)
         /\ \A l \in LogicalPages :
              ~check_page_empty(c.pre.logical_to_emptiness, l) => ReadsLatest(c.post, l)

(* a successful shuffle that moves a written page of the least-erased      *)
(* block into the cleaned log block                                        *)
C33_Witness ==
  \E lba \in LogicalPages : \E r \in Outcomes(cur, WRITE, lba) :
    \E c \in CallsOf(r, "shuffle_data_log") :
      /\ c.ok
      /\ \E i \in 0..(BLOCK_SIZE - 1) :
           /\ c.pre.page_state[c.other + i] = VALID
           /\ c.post.page_state[c.log_pba + i] = VALID
           /\ c.post.page_data[c.log_pba + i].latest
      /\ Len(c.post.op_blocks) = 1

(* C34: erase cap reached without a remap target.  When a WRITE finds the  *)
(* log block full, the data block D at BLOCK_ERASES, and remap_data_block  *)
(* finds neither an empty data block under the cap nor a free pool block,  *)
(* translate returns FAILURE, no ERASE or WRITE is issued to D and all     *)
(* tables are unchanged; and clean is never invoked with a data block or   *)
(* a log block whose erase_count equals BLOCK_ERASES.                      *)
C34_EraseCapReached ==
  \A lba \in LogicalPages : \A r \in Outcomes(cur, WRITE, lba) :
    /\ \A c \in CallsOf(r, "remap_data_block") : ~c.ok =>
         /\ c.pre.erase_count[c.data_pba \div BLOCK_SIZE] = BLOCK_ERASES
         /\ r.status = FAILURE
         /\ \A k \in 1..Len(r.issued) :
              r.issued[k].block = c.data_pba \div BLOCK_SIZE => r.issued[k].type = READ
         /\ TablesUnchanged(r)
    /\ \A c \in CallsOf(r, "clean") :
         /\ c.pre.erase_count[c.data_pba \div BLOCK_SIZE] < BLOCK_ERASES
         /\ c.pre.erase_count[c.log_pba \div BLOCK_SIZE] < BLOCK_ERASES

(* a write to a full log block whose data block is at the cap, with no     *)
(* empty data block under the cap and the pool empty                       *)
C34_Witness ==
  \E lba \in LogicalPages : \E r \in Outcomes(cur, WRITE, lba) :
    /\ r.status = FAILURE
    /\ op_blocks = <<>>
    /\ erase_count[DataBlockOf(logical_to_physical, lba)] = BLOCK_ERASES
    /\ \E c \in CallsOf(r, "remap_data_block") : ~c.ok

(* C35: erase accounting.  In every reachable state, for every physical    *)
(* block B, erase_count[B] equals the number of physical ERASE events the  *)
(* FTL has issued to B since initialisation.                               *)
C35_EraseAccounting ==
  \A b \in PhysicalBlocks : erase_count[b] = erase_events[b]

(* the roles physical block b is in: the logical blocks it is the data     *)
(* block of, the data blocks it is the mapped log block of, its places in  *)
(* the free pool                                                           *)
DataRoles(b) == {x \in LogicalBlocks : DataBlockOfBlock(logical_to_physical, x) = b}

LogRoles(b) == {d \in PhysicalBlocks : HasLog(data_to_log, d) /\ LogBlockOf(data_to_log, d) = b}

PoolRoles(b) == {k \in 1..Len(op_blocks) : op_blocks[k] = b * BLOCK_SIZE}

(* C36: block conservation.  In every reachable state every physical block *)
(* whose erase_count is below BLOCK_ERASES is in exactly one role: the     *)
(* data block of exactly one logical block, the mapped log block of        *)
(* exactly one data block, or a member of the free pool.                   *)
C36_BlockConservation ==
  \A b \in PhysicalBlocks : erase_count[b] < BLOCK_ERASES =>
    Cardinality(DataRoles(b)) + Cardinality(LogRoles(b)) + Cardinality(PoolRoles(b)) = 1

(* C37: mapped log blocks always have a manifest.  In every reachable      *)
(* state, whenever the data-to-log offset of a block D is nonzero, the     *)
(* manifest table has an entry for D's log block, and that manifest has    *)
(* between 1 and BLOCK_SIZE entries, each in 0..BLOCK_SIZE-1; and no call  *)
(* of translate, clean, remap_data_block or remap_log_block dereferences a *)
(* missing manifest.                                                       *)
C37_MappedLogHasManifest ==
  /\ \A d \in PhysicalBlocks : HasLog(data_to_log, d) =>
       /\ LogBlockOf(data_to_log, d) * BLOCK_SIZE \in DOMAIN log_to_pages
       /\ Len(ManifestOf(log_to_pages, LogBlockOf(data_to_log, d))) \in 1..BLOCK_SIZE
       /\ \A k \in 1..Len(ManifestOf(log_to_pages, LogBlockOf(data_to_log, d))) :
            ManifestOf(log_to_pages, LogBlockOf(data_to_log, d))[k] \in 0..(BLOCK_SIZE - 1)
  /\ ~ub_deref
  /\ \A type \in EventTypes : \A lba \in HostAddresses : \A r \in Outcomes(cur, type, lba) :
       ~r.s.ub_deref

(* two data blocks have mapped log blocks, one after a clean or a remap    *)
(* restarted its manifest, the other full                                  *)
C37_Witness ==
  /\ \E b \in PhysicalBlocks : erase_count[b] = BLOCK_ERASES
  /\ \E d, e \in PhysicalBlocks :
       /\ d # e /\ HasLog(data_to_log, d) /\ HasLog(data_to_log, e)
       /\ Len(ManifestOf(log_to_pages, LogBlockOf(data_to_log, d))) = 1
       /\ Len(ManifestOf(log_to_pages, LogBlockOf(data_to_log, e))) = BLOCK_SIZE

(* C38: atomic failure of writes.  In every reachable state, whenever the  *)
(* translation of a host WRITE returns FAILURE, the bitmap, both offset    *)
(* tables, the manifests, the erase counts and the free pool are what they *)
(* were before the call and no physical READ, WRITE or ERASE was issued    *)
(* during the call, also when remap_data_block or remap_log_block          *)
(* succeeded and the clean that follows found no scratch block.            *)
C38_AtomicFailure ==
  \A lba \in HostAddresses : \A r \in Outcomes(cur, WRITE, lba) :
    r.status = FAILURE => (TablesUnchanged(r) /\ r.issued = <<>>)

(* ---------------------------------------------------------------------- *)
(* fetch_log_page and next_free_log_page on arbitrary manifests            *)
(* ---------------------------------------------------------------------- *)
MaxManifest == 3
MaxOffset == 111

(* offsets a manifest may record: one-digit ones and multi-digit ones      *)
(* whose decimal strings contain those of the others                       *)
ManifestOffsets == {0, 1, 10, 11, 110}

Manifests == UNION {[1..n -> ManifestOffsets] : n \in 0..MaxManifest}

(* the string translate builds for the list m of offsets: every entry is   *)
(* to_string(page) followed by a comma                                     *)
RECURSIVE manifest_string(_)
manifest_string(m) ==
  IF m = <<>> THEN <<>>
  ELSE manifest_string(SubSeq(m, 1, Len(m) - 1)) \o to_string(m[Len(m)]) \o <<",">>

(* the manifest string under test, kept for the first pool block *)
offsets_under_test == log_to_pages[USABLE_SIZE]

(* logical block 0 with the first pool block as its log block, holding any *)
(* manifest                                                                *)
InitManifest ==
  /\ geometry \in Configurations
  /\ logical_to_emptiness = [w \in 0..(emp_len - 1) |-> 0]
  /\ erase_count = [b \in 0..(NUM_OF_PHY_B - 1) |-> 0]
  /\ logical_to_physical = [b \in 0..(NUM_OF_LGC_B - 1) |-> 0]
  /\ data_to_log = [b \in 0..(NUM_OF_PHY_B - 1) |-> IF b = 0 THEN NUM_OF_LGC_B ELSE 0]
  /\ log_to_pages \in {(USABLE_SIZE :> manifest_string(m)) : m \in Manifests}
  /\ op_blocks = [k \in 1..(NUM_OF_OP_B - 1) |-> USABLE_SIZE + k * BLOCK_SIZE]
  /\ page_state = [p \in 0..(RAW_SIZE - 1) |-> EMPTY]
  /\ erases_remaining = [b \in 0..(NUM_OF_PHY_B - 1) |-> BLOCK_ERASES]
  /\ ref_map = <<>>
  /\ block_map = [b \in 0..(NUM_OF_PHY_B - 1) |-> {}]
  /\ reads_passed = TRUE
  /\ page_data = [p \in 0..(RAW_SIZE - 1) |-> NoData]
  /\ erase_events = [b \in 0..(NUM_OF_PHY_B - 1) |-> 0]
  /\ ub_deref = FALSE

(* the append of translate: when next_free_log_page finds a free page, the *)
(* manifest gets the offset and a comma                                    *)
AppendToManifest ==
  \E page \in ManifestOffsets :
    /\ next_free_log_page(offsets_under_test).ok
    /\ log_to_pages' = (USABLE_SIZE :> offsets_under_test \o to_string(page) \o <<",">>)
    /\ UNCHANGED <<geometry, logical_to_emptiness, erase_count, logical_to_physical, data_to_log,
                   op_blocks, page_state, erases_remaining, ref_map, block_map, reads_passed,
                   page_data, erase_events, ub_deref>>

(* a lookup of an offset that fetch_log_page finds: no table changes *)
FetchFromManifest ==
  \E page \in 0..MaxOffset :
    /\ fetch_log_page(offsets_under_test, page).found
    /\ UNCHANGED vars

NextManifest == AppendToManifest \/ FetchFromManifest

SpecManifest == InitManifest /\ [][NextManifest]_vars

(* C39: fetch_log_page and next_free_log_page against lists.  For every    *)
(* manifest string built from a list of offsets (one-digit and multi-digit *)
(* ones) and every offset x: fetch_log_page returns true with the 0-based  *)
(* index of the last occurrence of x when x is in the list and false when  *)
(* it is not; next_free_log_page returns the length of the list when it is *)
(* below BLOCK_SIZE and false otherwise.                                   *)
C39_ManifestLookup ==
  /\ \E m \in Manifests : offsets_under_test = manifest_string(m)
  /\ \A m \in Manifests : offsets_under_test = manifest_string(m) =>
       /\ \A x \in 0..MaxOffset :
            IF LastIndexOf(m, x) >= 0
            THEN fetch_log_page(offsets_under_test, x) = [found |-> TRUE, log_page |-> LastIndexOf(m, x)]
            ELSE ~fetch_log_page(offsets_under_test, x).found
       /\ IF Len(m) < BLOCK_SIZE
          THEN next_free_log_page(offsets_under_test) = [ok |-> TRUE, page |-> Len(m)]
          ELSE ~next_free_log_page(offsets_under_test).ok

(* a full manifest 11, 1: the string of 1 is inside the entry "11," and    *)
(* is itself the last entry                                                *)
C39_Witness ==
  /\ offsets_under_test = manifest_string(<<11, 1>>)
  /\ fetch_log_page(offsets_under_test, 11) = [found |-> TRUE, log_page |-> 0]
  /\ fetch_log_page(offsets_under_test, 1) = [found |-> TRUE, log_page |-> 1]
  /\ ~fetch_log_page(offsets_under_test, 0).found
  /\ ~next_free_log_page(offsets_under_test).ok

(* C40: bitmap addressing does not alias.  In every reachable state the    *)
(* bitmap has emp_len = ceil(USABLE_SIZE / sizeof(unsigned int)) words,    *)
(* the word index L / sizeof(unsigned int) of every logical page L is      *)
(* below emp_len, and for all logical pages L # L2, set_page_written(L)    *)
(* makes check_page_empty(L) false and leaves check_page_empty(L2) as it   *)
(* was.                                                                    *)
C40_BitmapNoAlias ==
  /\ DOMAIN logical_to_emptiness = 0..(emp_len - 1)
  /\ emp_len * SizeofUInt >= USABLE_SIZE /\ (emp_len - 1) * SizeofUInt < USABLE_SIZE
  /\ \A L \in LogicalPages :
       /\ L \div SizeofUInt \in 0..(emp_len - 1)
       /\ L % SizeofUInt \in 0..(SizeofUInt - 1)
       /\ DOMAIN set_page_written(logical_to_emptiness, L) = DOMAIN logical_to_emptiness
       /\ ~check_page_empty(set_page_written(logical_to_emptiness, L), L)
       /\ \A L2 \in LogicalPages \ {L} :
            check_page_empty(set_page_written(logical_to_emptiness, L), L2)
              = check_page_empty(logical_to_emptiness, L2)

(* pages written in both words of the bitmap, the last word partly used,   *)
(* and an unwritten page next to a written one in each word                *)
C40_Witness ==
  /\ emp_len = 2 /\ USABLE_SIZE % SizeofUInt # 0
  /\ \A w \in 0..(emp_len - 1) :
       \E L, L2 \in LogicalPages :
         /\ L \div SizeofUInt = w /\ L2 \div SizeofUInt = w
         /\ check_page_empty(logical_to_emptiness, L)
         /\ ~check_page_empty(logical_to_emptiness, L2)

====
